---------------------------- MODULE Spec2Model ----------------------------
(***************************************************************************)
(* Model of the purchase-order extraction engine of DigiTradeX_Back        *)
(* (src/ocr_extractors.py): the numeric normalizer, the result validator   *)
(* and the extract_po_data pipeline with its regular-expression recipes.   *)
(*                                                                         *)
(* Python strings are TLA+ strings; a character is a string of length 1.   *)
(* Regular expressions are abstract syntax trees run by a backtracking     *)
(* matcher with the semantics of Python's re (leftmost match, ordered      *)
(* alternation, greedy and lazy repetition, capture groups).               *)
(***************************************************************************)
EXTENDS Integers, Sequences, FiniteSets, TLC

VARIABLES
    value,            \* _clean_numeric_field: its argument
    normalized_text,  \* _clean_numeric_field: its return value
    draft,            \* validate_and_clean_result: the argument as it was before the call
    data,             \* validate_and_clean_result: the argument object after the call(s)
    cleaned,          \* validate_and_clean_result: the returned record
    recleaned,        \* validate_and_clean_result applied to the returned record
    text,             \* extract_po_data: its argument
    outcome,          \* extract_po_data: what the call produced (a record or an exception)
    pc,               \* which operation has run
    calls,            \* concurrent calls of extract_po_data: the locals of each
    log_record,       \* the module's logger: the record it emitted last
    field_patterns,   \* extract_field_by_regex: its pattern list (patterns)
    db,               \* the database: the rows of each table
    request,          \* the call being served: the endpoint or task and its arguments
    response          \* what the call answered

vars == <<value, normalized_text, draft, data, cleaned, recleaned, text, outcome, pc,
          calls, log_record, field_patterns, db, request, response>>

(***************************************************************************)
(* Characters and Python's str helpers                                     *)
(***************************************************************************)
Ch(s, i) == SubSeq(s, i, i)

UpperLetters == "ABCDEFGHIJKLMNOPQRSTUVWXYZ"
LowerLetters == "abcdefghijklmnopqrstuvwxyz"
Upper == {Ch(UpperLetters, i) : i \in 1..26}
Lower == {Ch(LowerLetters, i) : i \in 1..26}
Digit == {"0", "1", "2", "3", "4", "5", "6", "7", "8", "9"}
\* \s of re for str patterns, restricted to the ASCII characters a TLA+ string can hold
Space == {" ", "\t", "\n", "\r", "\f"}
\* \w of re
Word == Upper \cup Lower \cup Digit \cup {"_"}

LowerOf == [c \in Upper |-> Ch(LowerLetters, CHOOSE i \in 1..26 : Ch(UpperLetters, i) = c)]
UpperOf == [c \in Lower |-> Ch(UpperLetters, CHOOSE i \in 1..26 : Ch(LowerLetters, i) = c)]
LowerChar(c) == IF c \in Upper THEN LowerOf[c] ELSE c
UpperChar(c) == IF c \in Lower THEN UpperOf[c] ELSE c

\* str.lower() for ASCII text (halving keeps the evaluation shallow)
RECURSIVE ToLower(_)
ToLower(s) ==
    IF Len(s) <= 1 THEN LowerChar(s)
    ELSE LET h == Len(s) \div 2 IN
         ToLower(SubSeq(s, 1, h)) \o ToLower(SubSeq(s, h + 1, Len(s)))

\* str.strip(): leading and trailing whitespace removed
Strip(s) ==
    LET keep == {i \in 1..Len(s) : Ch(s, i) \notin Space} IN
    IF keep = {} THEN ""
    ELSE SubSeq(s, CHOOSE i \in keep : \A j \in keep : i <= j,
                   CHOOSE i \in keep : \A j \in keep : i >= j)

\* str.rfind(c): the 0-based index of the last occurrence of character c, -1 when absent
RFind(s, c) ==
    LET at == {i \in 1..Len(s) : Ch(s, i) = c} IN
    IF at = {} THEN -1 ELSE (CHOOSE i \in at : \A j \in at : i >= j) - 1

\* str.replace(old, new) for a one-character old: every occurrence is replaced
RECURSIVE Replace(_, _, _)
Replace(s, old, new) ==
    IF Len(s) = 0 THEN ""
    ELSE IF Len(s) = 1 THEN (IF s = old THEN new ELSE s)
    ELSE LET h == Len(s) \div 2 IN
         Replace(SubSeq(s, 1, h), old, new) \o Replace(SubSeq(s, h + 1, Len(s)), old, new)

(***************************************************************************)
(* Regular expressions.  A pattern is a sequence of nodes.                 *)
(***************************************************************************)
Lit(s) == [t |-> "lit", s |-> s, ls |-> ToLower(s)]        \* literal text
Set(cs) == [t |-> "set", cs |-> cs, neg |-> FALSE]         \* [...], \d, \s, \w
NotSet(cs) == [t |-> "set", cs |-> cs, neg |-> TRUE]       \* [^...]
Dot == [t |-> "any"]                                       \* .
Star(x) == [t |-> "star", x |-> x, lazy |-> FALSE]         \* x*
LazyStar(x) == [t |-> "star", x |-> x, lazy |-> TRUE]      \* x*?
Plus(x) == [t |-> "plus", x |-> x, lazy |-> FALSE]         \* x+
LazyPlus(x) == [t |-> "plus", x |-> x, lazy |-> TRUE]      \* x+?
Opt(x) == [t |-> "opt", x |-> x, lazy |-> FALSE]           \* x?
Alt(bs) == [t |-> "alt", bs |-> bs]                        \* b1|b2|...
Grp(n, x) == [t |-> "grp", n |-> n, x |-> x]               \* capture group number n
Bol == [t |-> "bol"]                                       \* ^
Eol == [t |-> "eol"]                                       \* $

D == Set(Digit)
S == Set(Space)
W == Set(Word)

\* re flags
NoFlags == [ic |-> FALSE, ml |-> FALSE, da |-> FALSE]
IgnoreCase == [ic |-> TRUE, ml |-> FALSE, da |-> FALSE]
IgnoreCaseMultiline == [ic |-> TRUE, ml |-> TRUE, da |-> FALSE]
DotAll == [ic |-> FALSE, ml |-> FALSE, da |-> TRUE]

Ctx(s, fl) == [raw |-> s, low |-> ToLower(s), n |-> Len(s), fl |-> fl]

\* the groups of a match: number -> [set, from, to) as 1-based positions; no
\* pattern of the program has more than five groups
MaxGroups == 5
NoCaps == [g \in 1..MaxGroups |-> [set |-> FALSE, from |-> 0, to |-> 0]]
Fail == [ok |-> FALSE]

ClassHas(n, c, ic) ==
    LET in == \/ c \in n.cs
              \/ ic /\ (LowerChar(c) \in n.cs \/ UpperChar(c) \in n.cs)
    IN  in # n.neg

\* whether the one-character node x (a literal character, a class or the dot)
\* matches the character at position j
CharOk(x, cx, j) ==
    CASE x.t = "lit" -> IF cx.fl.ic THEN Ch(cx.low, j) = x.ls ELSE Ch(cx.raw, j) = x.s
      [] x.t = "set" -> ClassHas(x, Ch(cx.raw, j), cx.fl.ic)
      [] x.t = "any" -> cx.fl.da \/ Ch(cx.raw, j) # "\n"

\* how many consecutive characters from position i the one-character node x matches
RunLen(x, cx, i) ==
    (CHOOSE j \in i..(cx.n + 1) :
        /\ j = cx.n + 1 \/ ~CharOk(x, cx, j)
        /\ \A m \in i..(j - 1) : CharOk(x, cx, m)) - i

\* $ : at the end, or before a newline that ends the text (any newline under MULTILINE)
AtEol(cx, i) ==
    \/ i = cx.n + 1
    \/ i <= cx.n /\ Ch(cx.raw, i) = "\n" /\ (cx.fl.ml \/ i = cx.n)
AtBol(cx, i) ==
    \/ i = 1
    \/ cx.fl.ml /\ i > 1 /\ Ch(cx.raw, i - 1) = "\n"

\* of the attempts <<rank, result>>, the successful one of least rank, or Fail
FirstOk(tries) ==
    LET good == {t \in tries : t[2].ok} IN
    IF good = {} THEN Fail
    ELSE (CHOOSE t \in good : \A u \in good : t[1] <= u[1])[2]

(* Run(k, cx, i, caps): match the node sequence k at position i, giving the     *)
(* first success in re's backtracking order, or Fail.  A repetition x*, x+      *)
(* (every one in the source repeats a single character, class or dot) tries     *)
(* its counts in order of preference: most first when greedy, fewest first      *)
(* when lazy.                                                                   *)
RECURSIVE Run(_, _, _, _)
\* the repetition k[1], whose body matches at most `most` consecutive characters
Repeat(k, cx, i, caps, most) ==
    LET least == IF k[1].t = "plus" THEN 1 ELSE 0
        \* the count tried first: the fewest when lazy, the most when greedy
        pref == IF k[1].lazy THEN least ELSE most
        first == Run(Tail(k), cx, i + pref, caps)
    IN  IF most < least THEN Fail
        ELSE IF first.ok THEN first
        ELSE FirstOk({<<IF k[1].lazy THEN c ELSE most - c, Run(Tail(k), cx, i + c, caps)>> :
                        c \in (least..most) \ {pref}})

Run(k, cx, i, caps) ==
    IF k = <<>> THEN [ok |-> TRUE, to |-> i, caps |-> caps]
    ELSE
    CASE k[1].t = "lit" ->
           IF /\ i + Len(k[1].s) - 1 <= cx.n
              /\ IF cx.fl.ic THEN SubSeq(cx.low, i, i + Len(k[1].s) - 1) = k[1].ls
                             ELSE SubSeq(cx.raw, i, i + Len(k[1].s) - 1) = k[1].s
               THEN Run(Tail(k), cx, i + Len(k[1].s), caps) ELSE Fail
      [] k[1].t \in {"set", "any"} ->
           IF i <= cx.n /\ CharOk(k[1], cx, i)
               THEN Run(Tail(k), cx, i + 1, caps) ELSE Fail
      [] k[1].t = "bol" -> IF AtBol(cx, i) THEN Run(Tail(k), cx, i, caps) ELSE Fail
      [] k[1].t = "eol" -> IF AtEol(cx, i) THEN Run(Tail(k), cx, i, caps) ELSE Fail
      [] k[1].t = "grp" ->
           Run(k[1].x \o <<[t |-> "close", n |-> k[1].n, from |-> i]>> \o Tail(k), cx, i, caps)
      [] k[1].t = "close" ->
           Run(Tail(k), cx, i,
               [caps EXCEPT ![k[1].n] = [set |-> TRUE, from |-> k[1].from, to |-> i]])
      [] k[1].t = "alt" ->
           FirstOk({<<b, Run(k[1].bs[b] \o Tail(k), cx, i, caps)>> : b \in DOMAIN k[1].bs})
      [] k[1].t = "opt" ->
           FirstOk({<<1, Run(k[1].x \o Tail(k), cx, i, caps)>>, <<2, Run(Tail(k), cx, i, caps)>>})
      [] k[1].t \in {"star", "plus"} -> Repeat(k, cx, i, caps, RunLen(k[1].x[1], cx, i))

\* the leftmost match that starts in lo..hi (halving keeps the evaluation shallow)
MatchAt(lo, m) ==
    IF m.ok THEN [ok |-> TRUE, from |-> lo, to |-> m.to, caps |-> m.caps] ELSE Fail
RECURSIVE FirstMatch(_, _, _, _)
FirstMatch(p, cx, lo, hi) ==
    IF lo > hi THEN Fail
    ELSE IF lo = hi THEN MatchAt(lo, Run(p, cx, lo, NoCaps))
        ELSE LET left == FirstMatch(p, cx, lo, (lo + hi) \div 2) IN
             IF left.ok THEN left ELSE FirstMatch(p, cx, (lo + hi) \div 2 + 1, hi)

\* re.search from position i: the leftmost match
SearchFrom(p, cx, i) == FirstMatch(p, cx, i, cx.n + 1)
Search(p, s, fl) == SearchFrom(p, Ctx(s, fl), 1)

\* match.group(g): the captured text; NoGroup when the pattern has no group g (IndexError)
NoGroup == [error |-> "IndexError"]
GroupOf(m, s, g) ==
    IF m.caps[g].set THEN SubSeq(s, m.caps[g].from, m.caps[g].to - 1) ELSE NoGroup

\* re.findall: the non-overlapping matches, left to right
RECURSIVE FindAllFrom(_, _, _)
FindAllAfter(p, cx, m) ==
    IF ~m.ok THEN <<>>
    ELSE <<m>> \o FindAllFrom(p, cx, IF m.to = m.from THEN m.to + 1 ELSE m.to)
FindAllFrom(p, cx, i) == FindAllAfter(p, cx, SearchFrom(p, cx, i))
FindAll(p, s, fl) == FindAllFrom(p, Ctx(s, fl), 1)

\* re.sub(p, repl, s) for a replacement without back-references
RECURSIVE SubFrom(_, _, _, _)
SubAfter(p, repl, cx, i, m) ==
    IF ~m.ok THEN SubSeq(cx.raw, i, cx.n)
    ELSE IF m.to = m.from
        THEN SubSeq(cx.raw, i, m.from - 1) \o repl
             \o (IF m.from <= cx.n THEN Ch(cx.raw, m.from) \o SubFrom(p, repl, cx, m.from + 1)
                 ELSE "")
        ELSE SubSeq(cx.raw, i, m.from - 1) \o repl \o SubFrom(p, repl, cx, m.to)
SubFrom(p, repl, cx, i) == SubAfter(p, repl, cx, i, SearchFrom(p, cx, i))
Sub(p, repl, s, fl) == SubFrom(p, repl, Ctx(s, fl), 1)

(***************************************************************************)
(* Numbers.  A Python float read from a decimal string is the exact        *)
(* decimal [m, e] = m / 10^e.  float() and str() agree with this for the   *)
(* values of the model (fewer than 10 significant digits, no exponent      *)
(* notation); round() is taken on the exact value, which differs from      *)
(* Python's rounding of the nearest double only at exact ties, and the     *)
(* values of the model produce none.                                       *)
(***************************************************************************)
Digits == "0123456789"
DigitVal(c) == (CHOOSE i \in 1..10 : Ch(Digits, i) = c) - 1

RECURSIVE Pow10(_)
Pow10(e) == IF e = 0 THEN 1 ELSE 10 * Pow10(e - 1)

\* int() of a string of digits
RECURSIVE DigitsToInt(_)
DigitsToInt(s) ==
    IF s = "" THEN 0 ELSE 10 * DigitsToInt(SubSeq(s, 1, Len(s) - 1)) + DigitVal(Ch(s, Len(s)))

\* str() of a non-negative int
RECURSIVE IntStr(_)
IntStr(n) == IF n < 10 THEN Ch(Digits, n + 1) ELSE IntStr(n \div 10) \o Ch(Digits, (n % 10) + 1)

Zero == [m |-> 0, e |-> 0]

\* float(s) for a string of digits, commas and periods: digits with at most one
\* period and no comma, otherwise ValueError
ParseFloat(s) ==
    LET dots == {i \in 1..Len(s) : Ch(s, i) = "."}
        digs == {i \in 1..Len(s) : Ch(s, i) \in Digit}
    IN  IF Cardinality(dots) > 1 \/ digs = {} \/ Cardinality(dots) + Cardinality(digs) # Len(s)
            THEN [ok |-> FALSE, error |-> "ValueError"]
        ELSE IF dots = {} THEN [ok |-> TRUE, m |-> DigitsToInt(s), e |-> 0]
        ELSE LET d == CHOOSE i \in dots : TRUE IN
             [ok |-> TRUE,
              m |-> DigitsToInt(SubSeq(s, 1, d - 1) \o SubSeq(s, d + 1, Len(s))),
              e |-> Len(s) - d]

\* the decimal with its trailing fraction zeros dropped
RECURSIVE Reduce(_)
Reduce(x) == IF x.e > 0 /\ x.m % 10 = 0 THEN Reduce([m |-> x.m \div 10, e |-> x.e - 1]) ELSE x

\* str(x) of a float x >= 0: the shortest decimal, with at least one fraction digit
\* the fraction digits t, with the leading zeros that make them n digits
RECURSIVE Pad(_, _)
Pad(t, n) == IF Len(t) < n THEN Pad("0" \o t, n) ELSE t
Shortest(r) ==
    IF r.e = 0 THEN IntStr(r.m) \o ".0"
    ELSE IntStr(r.m \div Pow10(r.e)) \o "." \o Pad(IntStr(r.m % Pow10(r.e)), r.e)
FloatStr(x) == Shortest(Reduce(x))

\* round(n / d, 2) for n >= 0, d > 0, as hundredths; an exact tie goes to the even neighbour
RoundHundredths(n, d) ==
    LET q == (100 * n) \div d
        twice == 2 * ((100 * n) % d)
    IN  [m |-> IF twice > d \/ (twice = d /\ q % 2 = 1) THEN q + 1 ELSE q, e |-> 2]

\* round(a * b, 2) and round(a / b, 2)
RoundedProduct(a, b) == RoundHundredths(a.m * b.m, Pow10(a.e + b.e))
RoundedQuotient(a, b) == RoundHundredths(a.m * Pow10(b.e), b.m * Pow10(a.e))

Positive(x) == x.m > 0
GreaterThan(x, n) == x.m > n * Pow10(x.e)

(***************************************************************************)
(* _clean_numeric_field and _extract_float                                 *)
(***************************************************************************)
\* r'[^\d.,]'
NonNumeric == <<NotSet(Digit \cup {".", ","})>>

\* the decision on the separators of the stripped text
Separators(cleaned_text, comma_pos, period_pos) ==
    IF comma_pos > 0 /\ period_pos > 0 THEN
        IF comma_pos > period_pos
            THEN Replace(Replace(cleaned_text, ".", ""), ",", ".")
            ELSE Replace(cleaned_text, ",", "")
    ELSE IF comma_pos > 0 THEN
        IF Len(cleaned_text) - comma_pos <= 3
            THEN Replace(cleaned_text, ",", ".")
            ELSE Replace(cleaned_text, ",", "")
    ELSE cleaned_text
StripNonNumeric(cleaned_text) ==
    Separators(cleaned_text, RFind(cleaned_text, ","), RFind(cleaned_text, "."))
CleanNumericField(v) ==
    IF v = "" THEN "" ELSE StripNonNumeric(Sub(NonNumeric, "", v, NoFlags))

FloatOr0(f) == IF f.ok THEN [m |-> f.m, e |-> f.e] ELSE Zero
FloatOfCleaned(c) == IF c = "" THEN Zero ELSE FloatOr0(ParseFloat(c))
ExtractFloat(v) == IF v = "" THEN Zero ELSE FloatOfCleaned(CleanNumericField(v))

(***************************************************************************)
(* validate_and_clean_result.  A dict is a function from its keys.         *)
(***************************************************************************)
Has(d, key) == key \in DOMAIN d
\* d[key] = v, adding the key when the dict lacks it
Put(d, key, v) == [x \in DOMAIN d \cup {key} |-> IF x = key THEN v ELSE d[x]]

string_fields == <<"customer_name", "po_number", "currency", "payment_terms", "destination">>

\* r'\s+'
Whitespace == <<Plus(<<S>>)>>
\* r'^[:;,.\s]+|[:;,.\s]+$'
PoNumberEdges ==
    <<Alt(<<<<Bol, Plus(<<Set({":", ";", ",", "."} \cup Space)>>)>>,
            <<Plus(<<Set({":", ";", ",", "."} \cup Space)>>), Eol>>>>)>>
\* r'(\d+(?:\.\d+)?)\s*(?:pcs|pieces|units|qty|kg|mt)'
QuantityInName ==
    <<Grp(1, <<Plus(<<D>>), Opt(<<Lit("."), Plus(<<D>>)>>)>>), Star(<<S>>),
      Alt(<<<<Lit("pcs")>>, <<Lit("pieces")>>, <<Lit("units")>>, <<Lit("qty")>>,
            <<Lit("kg")>>, <<Lit("mt")>>>>)>>
\* r'\s*\d+(?:\.\d+)?\s*(?:pcs|pieces|units|qty|kg|mt)'
QuantityInNameCut ==
    <<Star(<<S>>), Plus(<<D>>), Opt(<<Lit("."), Plus(<<D>>)>>), Star(<<S>>),
      Alt(<<<<Lit("pcs")>>, <<Lit("pieces")>>, <<Lit("units")>>, <<Lit("qty")>>,
            <<Lit("kg")>>, <<Lit("mt")>>>>)>>

MaxQuantity == 100000

\* the cleaning of one string field
TrimPoNumber(field, w) ==
    IF field = "po_number" THEN Sub(PoNumberEdges, "", w, NoFlags) ELSE w
CleanStringField(field, v) ==
    IF v = "" THEN v ELSE TrimPoNumber(field, Strip(Sub(Whitespace, " ", v, NoFlags)))

\* the product name: stripped, or "Product <i>" when missing or empty
CleanProductName(i, product) ==
    IF Has(product, "product_name") /\ product["product_name"] # ""
        THEN Put(product, "product_name", Strip(product["product_name"]))
        ELSE Put(product, "product_name", "Product " \o IntStr(i))

\* a quantity that is not in (0, 100000] is read again from the product name
QuantityFromName(product, name, qty_match) ==
    IF qty_match.ok
        THEN Put(Put(product, "quantity", FloatStr(ParseFloat(GroupOf(qty_match, name, 1)))),
                 "product_name", Sub(QuantityInNameCut, "", name, IgnoreCase))
        ELSE product
QuantityChecked(product, qty) ==
    IF (~Positive(qty) \/ GreaterThan(qty, MaxQuantity)) /\ product["product_name"] # ""
        THEN QuantityFromName(product, product["product_name"],
                              Search(QuantityInName, product["product_name"], IgnoreCase))
        ELSE product
RepairQuantity(product) ==
    IF ~Has(product, "quantity") THEN product
    ELSE QuantityChecked(product, ExtractFloat(product["quantity"]))

\* the one of quantity, unit price and subtotal that is missing, from the other two
\* Derive without the test that the unit price is positive
DeriveFromQuantityAlone(product, qty, price, subtotal) ==
    IF ~Positive(subtotal) /\ Positive(qty)
        THEN Put(product, "subtotal", FloatStr(RoundedProduct(qty, price)))
    ELSE IF ~Positive(price) /\ Positive(qty) /\ Positive(subtotal)
        THEN Put(product, "unit_price", FloatStr(RoundedQuotient(subtotal, qty)))
    ELSE IF ~Positive(qty) /\ Positive(price) /\ Positive(subtotal)
        THEN Put(product, "quantity", FloatStr(RoundedQuotient(subtotal, price)))
    ELSE product
Derive(product, qty, price, subtotal) ==
    IF ~Positive(subtotal) /\ Positive(qty) /\ Positive(price)
        THEN Put(product, "subtotal", FloatStr(RoundedProduct(qty, price)))
    ELSE IF ~Positive(price) /\ Positive(qty) /\ Positive(subtotal)
        THEN Put(product, "unit_price", FloatStr(RoundedQuotient(subtotal, qty)))
    ELSE IF ~Positive(qty) /\ Positive(price) /\ Positive(subtotal)
        THEN Put(product, "quantity", FloatStr(RoundedQuotient(subtotal, price)))
    ELSE product
DeriveMissing(product) ==
    IF ~(Has(product, "quantity") /\ Has(product, "unit_price") /\ Has(product, "subtotal"))
        THEN product
    ELSE Derive(product, ExtractFloat(product["quantity"]),
                ExtractFloat(product["unit_price"]), ExtractFloat(product["subtotal"]))

CleanProduct(i, product) == DeriveMissing(RepairQuantity(CleanProductName(i, product)))

PlaceholderProduct ==
    [product_name |-> "Unknown Product", quantity |-> "0", unit_price |-> "0", subtotal |-> "0"]

\* CleanProducts without the placeholder
CleanProductsAsGiven(products) == [i \in 1..Len(products) |-> CleanProduct(i, products[i])]
\* the products list after the call: a placeholder appended when it is empty, then
\* every line cleaned in place
CleanProducts(products) ==
    LET filled == IF products = <<>> THEN <<PlaceholderProduct>> ELSE products IN
    [i \in 1..Len(filled) |-> CleanProduct(i, filled[i])]

DefaultCurrency(d) ==
    IF ~Has(d, "currency") \/ d["currency"] = "" THEN Put(d, "currency", "USD") ELSE d

(* validate_and_clean_result(d): ret is the returned dict, arg the argument     *)
(* after the call.  cleaned = data.copy() is a shallow copy, so the products    *)
(* list, which is changed in place, is the argument's list too.                 *)
CleanStrings(d) ==
    [k \in DOMAIN d |->
        IF \E j \in DOMAIN string_fields : string_fields[j] = k
            THEN CleanStringField(k, d[k]) ELSE d[k]]
WithProducts(d, products) ==
    [ret |-> DefaultCurrency(Put(CleanStrings(d), "products", products)),
     arg |-> Put(d, "products", products)]
ValidateAndCleanResult(d) == WithProducts(d, CleanProducts(d["products"]))

(***************************************************************************)
(* extract_field_by_regex.  A call either returns a value or raises.        *)
(***************************************************************************)
Returned(v) == [raised |-> FALSE, value |-> v]
Raised(e) == [raised |-> TRUE, error |-> e]

\* a character outside ASCII: no character of a text of the model
NonAscii == [t |-> "set", cs |-> {}, neg |-> FALSE]

\* whether the pattern has a capture group number g
RECURSIVE HasGroup(_, _)
HasGroup(p, g) ==
    \E j \in DOMAIN p :
        CASE p[j].t = "grp" -> p[j].n = g \/ HasGroup(p[j].x, g)
          [] p[j].t \in {"opt", "star", "plus"} -> HasGroup(p[j].x, g)
          [] p[j].t = "alt" -> \E b \in DOMAIN p[j].bs : HasGroup(p[j].bs[b], g)
          [] OTHER -> FALSE

field_edges ==
    \* r"^[:\s]+|[:\s]+$"
    <<Alt(<<<<Bol, Plus(<<Set(Space \cup {":"})>>)>>, <<Plus(<<Set(Space \cup {":"})>>), Eol>>>>)>>
(* match.group(1) raises IndexError for a pattern without a group; a group that  *)
(* took no part in the match is None, and None.strip() raises AttributeError.    *)
RECURSIVE ExtractFieldByRegex(_, _, _)
FieldFromGroup(txt, patterns, default_value, stripped) ==
    IF stripped # "" THEN Returned(Sub(field_edges, "", stripped, NoFlags))
    ELSE ExtractFieldByRegex(txt, Tail(patterns), default_value)
FieldFromMatch(txt, patterns, default_value, match) ==
    IF ~match.ok THEN ExtractFieldByRegex(txt, Tail(patterns), default_value)
    ELSE IF ~HasGroup(Head(patterns), 1) THEN Raised("IndexError")
    ELSE IF ~match.caps[1].set THEN Raised("AttributeError")
    ELSE FieldFromGroup(txt, patterns, default_value, Strip(GroupOf(match, txt, 1)))
ExtractFieldByRegex(txt, patterns, default_value) ==
    IF patterns = <<>> THEN Returned(default_value)
    ELSE FieldFromMatch(txt, patterns, default_value,
                        Search(Head(patterns), txt, IgnoreCaseMultiline))

(***************************************************************************)
(* identify_po_format                                                      *)
(***************************************************************************)
format_features ==
    <<
      [format |-> "format1",
       features |-> <<
           \* r"\(Buyer(?:'|')s Info\)"
           [pattern |-> <<Lit("(Buyer"), Alt(<<<<Lit("'")>>, <<Lit("'")>>>>), Lit("s Info)")>>, weight |-> 10],
           \* r"ABC Company"
           [pattern |-> <<Lit("ABC Company")>>, weight |-> 5],
           \* r"Purchase Order:?\s*\d+"
           [pattern |-> <<Lit("Purchase Order"), Opt(<<Lit(":")>>), Star(<<S>>), Plus(<<D>>)>>, weight |-> 5],
           \* r"Ship to:"
           [pattern |-> <<Lit("Ship to:")>>, weight |-> 3],
           \* r"Unit Price:?\s*\$"
           [pattern |-> <<Lit("Unit Price"), Opt(<<Lit(":")>>), Star(<<S>>), Lit("$")>>, weight |-> 3],
           \* r"EXT Price:"
           [pattern |-> <<Lit("EXT Price:")>>, weight |-> 3],
           \* r"Inco Terms:"
           [pattern |-> <<Lit("Inco Terms:")>>, weight |-> 2],
           \* r"Del Date:"
           [pattern |-> <<Lit("Del Date:")>>, weight |-> 2]>>],
      [format |-> "format2",
       features |-> <<
           \* r"Purchase Order\s*$"
           [pattern |-> <<Lit("Purchase Order"), Star(<<S>>), Eol>>, weight |-> 10],
           \* r"Supplier:"
           [pattern |-> <<Lit("Supplier:")>>, weight |-> 5],
           \* r"Purchase Order no:?\s*\d+"
           [pattern |-> <<Lit("Purchase Order no"), Opt(<<Lit(":")>>), Star(<<S>>), Plus(<<D>>)>>, weight |-> 5],
           \* r"Payment Terms:"
           [pattern |-> <<Lit("Payment Terms:")>>, weight |-> 3],
           \* r"Incoterms:"
           [pattern |-> <<Lit("Incoterms:")>>, weight |-> 3],
           \* r"Discharge Port:"
           [pattern |-> <<Lit("Discharge Port:")>>, weight |-> 3],
           \* r"Buyer:"
           [pattern |-> <<Lit("Buyer:")>>, weight |-> 3],
           \* r"Commodity"
           [pattern |-> <<Lit("Commodity")>>, weight |-> 2],
           \* r"Grand Total"
           [pattern |-> <<Lit("Grand Total")>>, weight |-> 2]>>],
      [format |-> "format3",
       features |-> <<
           \* r"(?:\/\/\/|///)ORDER CONFIMATION(?:\/\/\/|///)"
           [pattern |-> <<Alt(<<<<Lit("///")>>, <<Lit("///")>>>>), Lit("ORDER CONFIMATION"), Alt(<<<<Lit("///")>>, <<Lit("///")>>>>)>>, weight |-> 10],
           \* r"Contract Party\s*:"
           [pattern |-> <<Lit("Contract Party"), Star(<<S>>), Lit(":")>>, weight |-> 5],
           \* r"Order No\."
           [pattern |-> <<Lit("Order No.")>>, weight |-> 5],
           \* r"Grade [A-Z]"
           [pattern |-> <<Lit("Grade "), Set(Upper)>>, weight |-> 3],
           \* r"Qt'y \(mt\)"
           [pattern |-> <<Lit("Qt'y (mt)")>>, weight |-> 3],
           \* r"PORT OF DISCHARGE"
           [pattern |-> <<Lit("PORT OF DISCHARGE")>>, weight |-> 3],
           \* r"Payment term"
           [pattern |-> <<Lit("Payment term")>>, weight |-> 2],
           \* r"TIME OF SHIPMENT"
           [pattern |-> <<Lit("TIME OF SHIPMENT")>>, weight |-> 2],
           \* r"PORT OF LOADING"
           [pattern |-> <<Lit("PORT OF LOADING")>>, weight |-> 2]>>]>>
\* the sum of the weights of the features found in the text
RECURSIVE Score(_, _)
Score(txt, features) ==
    IF features = <<>> THEN 0
    ELSE (IF Search(Head(features).pattern, txt, IgnoreCase).ok THEN Head(features).weight
          ELSE 0) + Score(txt, Tail(features))
FormatScores(txt) ==
    <<Score(txt, format_features[1].features), Score(txt, format_features[2].features),
      Score(txt, format_features[3].features)>>
\* the first format that scored at all, whatever the others scored
BestFormatFirstScored(format_scores) ==
    IF \A j \in DOMAIN format_scores : format_scores[j] = 0 THEN "generic"
    ELSE format_features[CHOOSE j \in DOMAIN format_scores :
                             /\ format_scores[j] > 0
                             /\ \A k \in 1..(j - 1) : format_scores[k] = 0].format
\* the last format of the greatest score
BestFormatLastOfTies(format_scores) ==
    IF \A j \in DOMAIN format_scores : format_scores[j] = 0 THEN "generic"
    ELSE format_features[CHOOSE j \in DOMAIN format_scores :
                             /\ \A k \in DOMAIN format_scores : format_scores[k] <= format_scores[j]
                             /\ \A k \in (j + 1)..Len(format_scores) :
                                    format_scores[k] < format_scores[j]].format
\* max(format_scores, key=format_scores.get): the first format of the greatest score
BestFormat(format_scores) ==
    IF \A j \in DOMAIN format_scores : format_scores[j] = 0 THEN "generic"
    ELSE format_features[CHOOSE j \in DOMAIN format_scores :
                             /\ \A k \in DOMAIN format_scores : format_scores[k] <= format_scores[j]
                             /\ \A k \in 1..(j - 1) : format_scores[k] < format_scores[j]].format
IdentifyPoFormat(txt) == BestFormat(FormatScores(txt))

(***************************************************************************)
(* The four extractors.  Each gives Done(result) or a raised exception.     *)
(***************************************************************************)
Done(result) == [raised |-> FALSE, result |-> result]

header_order == <<"customer_name", "po_number", "payment_terms", "destination">>
product_order == <<"product_name", "quantity", "unit_price", "subtotal">>
HeaderFields(txt, recipe) ==
    [customer_name |-> ExtractFieldByRegex(txt, recipe.customer_name, ""),
     po_number |-> ExtractFieldByRegex(txt, recipe.po_number, ""),
     payment_terms |-> ExtractFieldByRegex(txt, recipe.payment_terms, ""),
     destination |-> ExtractFieldByRegex(txt, recipe.destination, "")]
ProductFields(txt, recipe) ==
    [product_name |-> ExtractFieldByRegex(txt, recipe.product_name, ""),
     quantity |-> ExtractFieldByRegex(txt, recipe.quantity, ""),
     unit_price |-> ExtractFieldByRegex(txt, recipe.unit_price, ""),
     subtotal |-> ExtractFieldByRegex(txt, recipe.subtotal, "")]
\* the first of the calls, in the order of the code, that raised
AnyRaised(fields, order) == \E j \in DOMAIN order : fields[order[j]].raised
FirstRaised(fields, order) ==
    fields[order[CHOOSE j \in DOMAIN order :
                     /\ fields[order[j]].raised
                     /\ \A k \in 1..(j - 1) : ~fields[order[k]].raised]]

currency_code ==
    \* r"(USD|EUR|JPY|CNY)"
    <<Grp(1, <<Alt(<<<<Lit("USD")>>, <<Lit("EUR")>>, <<Lit("JPY")>>, <<Lit("CNY")>>>>)>>)>>
GroupText(m, s) == IF m.ok THEN GroupOf(m, s, 1) ELSE ""
\* the currency code found in the text, "" when there is none
CurrencyIn(txt) == GroupText(Search(currency_code, txt, NoFlags), txt)

Result(h, currency, products) ==
    [customer_name |-> h.customer_name.value, po_number |-> h.po_number.value,
     currency |-> currency, products |-> products,
     payment_terms |-> h.payment_terms.value, destination |-> h.destination.value]
\* a product line from extracted field values
ProductLine(name, p) ==
    [product_name |-> name,
     quantity |-> CleanNumericField(p.quantity.value),
     unit_price |-> CleanNumericField(p.unit_price.value),
     subtotal |-> CleanNumericField(p.subtotal.value)]
\* a product line from groups first .. first + 3 of a findall match
RowLine(m, s, first) ==
    [product_name |-> Strip(GroupOf(m, s, first)),
     quantity |-> CleanNumericField(GroupOf(m, s, first + 1)),
     unit_price |-> CleanNumericField(GroupOf(m, s, first + 2)),
     subtotal |-> CleanNumericField(GroupOf(m, s, first + 3))]
RECURSIVE RowLines(_, _, _)
RowLines(matches, s, first) ==
    IF matches = <<>> THEN <<>>
    ELSE <<RowLine(Head(matches), s, first)>> \o RowLines(Tail(matches), s, first)

(* extract_format1_data *)
format1_header ==
    [customer_name |-> <<
         \* r"ABC Company\s*(.*?)(?:\n|$)"
         <<Lit("ABC Company"), Star(<<S>>), Grp(1, <<LazyStar(<<Dot>>)>>), Alt(<<<<Lit("\n")>>, <<Eol>>>>)>>,
         \* r"\(Buyer(?:'|')s Info\).*?([A-Za-z0-9\s]+Company)"
         <<Lit("(Buyer"), Alt(<<<<Lit("'")>>, <<Lit("'")>>>>), Lit("s Info)"), LazyStar(<<Dot>>), Grp(1, <<Plus(<<Set(Upper \cup Lower \cup Digit \cup Space)>>), Lit("Company")>>)>>,
         \* r"(?:\(Buyer(?:'|')s Info\)|Buyer['']?s\s+info)(?:.*?\n)?(.*?)(?:\n|$)"
         <<Alt(<<<<Lit("(Buyer"), Alt(<<<<Lit("'")>>, <<Lit("'")>>>>), Lit("s Info)")>>, <<Lit("Buyer"), Opt(<<Set({"'"})>>), Lit("s"), Plus(<<S>>), Lit("info")>>>>), Opt(<<LazyStar(<<Dot>>), Lit("\n")>>), Grp(1, <<LazyStar(<<Dot>>)>>), Alt(<<<<Lit("\n")>>, <<Eol>>>>)>>>>,
     po_number |-> <<
         \* r"Purchase Order(?::|Order|Number)?:?\s*(\d+)"
         <<Lit("Purchase Order"), Opt(<<Alt(<<<<Lit(":")>>, <<Lit("Order")>>, <<Lit("Number")>>>>)>>), Opt(<<Lit(":")>>), Star(<<S>>), Grp(1, <<Plus(<<D>>)>>)>>,
         \* r"(?:PO|Order)(?:\s+No)?\.?:?\s*(\d+)"
         <<Alt(<<<<Lit("PO")>>, <<Lit("Order")>>>>), Opt(<<Plus(<<S>>), Lit("No")>>), Opt(<<Lit(".")>>), Opt(<<Lit(":")>>), Star(<<S>>), Grp(1, <<Plus(<<D>>)>>)>>,
         \* r"Purchase Order:?\s*([a-zA-Z0-9-]+)"
         <<Lit("Purchase Order"), Opt(<<Lit(":")>>), Star(<<S>>), Grp(1, <<Plus(<<Set(Lower \cup Upper \cup Digit \cup {"-"})>>)>>)>>>>,
     payment_terms |-> <<
         \* r"Terms:\s*(.*?)(?:\n|$)"
         <<Lit("Terms:"), Star(<<S>>), Grp(1, <<LazyStar(<<Dot>>)>>), Alt(<<<<Lit("\n")>>, <<Eol>>>>)>>,
         \* r"Payment terms?:?\s*(.*?)(?:\n|$)"
         <<Lit("Payment term"), Opt(<<Lit("s")>>), Opt(<<Lit(":")>>), Star(<<S>>), Grp(1, <<LazyStar(<<Dot>>)>>), Alt(<<<<Lit("\n")>>, <<Eol>>>>)>>,
         \* r"Net Due within\s*(.*?)(?:\n|$)"
         <<Lit("Net Due within"), Star(<<S>>), Grp(1, <<LazyStar(<<Dot>>)>>), Alt(<<<<Lit("\n")>>, <<Eol>>>>)>>>>,
     destination |-> <<
         \* r"Ship to:\s*(.*?)(?:\n|$)"
         <<Lit("Ship to:"), Star(<<S>>), Grp(1, <<LazyStar(<<Dot>>)>>), Alt(<<<<Lit("\n")>>, <<Eol>>>>)>>,
         \* r"Destination:\s*(.*?)(?:\n|$)"
         <<Lit("Destination:"), Star(<<S>>), Grp(1, <<LazyStar(<<Dot>>)>>), Alt(<<<<Lit("\n")>>, <<Eol>>>>)>>,
         \* r"Delivery Address:\s*(.*?)(?:\n|$)"
         <<Lit("Delivery Address:"), Star(<<S>>), Grp(1, <<LazyStar(<<Dot>>)>>), Alt(<<<<Lit("\n")>>, <<Eol>>>>)>>>>]
format1_product ==
    [product_name |-> <<
         \* r"Item:\s*(.*?)(?:\n|$)"
         <<Lit("Item:"), Star(<<S>>), Grp(1, <<LazyStar(<<Dot>>)>>), Alt(<<<<Lit("\n")>>, <<Eol>>>>)>>,
         \* r"Product:?\s*(.*?)(?:\n|Quantity)"
         <<Lit("Product"), Opt(<<Lit(":")>>), Star(<<S>>), Grp(1, <<LazyStar(<<Dot>>)>>), Alt(<<<<Lit("\n")>>, <<Lit("Quantity")>>>>)>>>>,
     quantity |-> <<
         \* r"Quantity:\s*([\d,.]+)\s*(?:KG|kg|MT|mt)"
         <<Lit("Quantity:"), Star(<<S>>), Grp(1, <<Plus(<<Set(Digit \cup {",", "."})>>)>>), Star(<<S>>), Alt(<<<<Lit("KG")>>, <<Lit("kg")>>, <<Lit("MT")>>, <<Lit("mt")>>>>)>>,
         \* r"Qty:?\s*([\d,.]+)\s*(?:KG|kg|MT|mt)"
         <<Lit("Qty"), Opt(<<Lit(":")>>), Star(<<S>>), Grp(1, <<Plus(<<Set(Digit \cup {",", "."})>>)>>), Star(<<S>>), Alt(<<<<Lit("KG")>>, <<Lit("kg")>>, <<Lit("MT")>>, <<Lit("mt")>>>>)>>,
         \* r"Quan\u019fty:?\s*([\d,.]+)\s*(?:KG|kg|MT|mt)"
         <<Lit("Quan"), NonAscii, Lit("ty"), Opt(<<Lit(":")>>), Star(<<S>>), Grp(1, <<Plus(<<Set(Digit \cup {",", "."})>>)>>), Star(<<S>>), Alt(<<<<Lit("KG")>>, <<Lit("kg")>>, <<Lit("MT")>>, <<Lit("mt")>>>>)>>>>,
     unit_price |-> <<
         \* r"Unit Price:\s*\$?\s*([\d,.]+)"
         <<Lit("Unit Price:"), Star(<<S>>), Opt(<<Lit("$")>>), Star(<<S>>), Grp(1, <<Plus(<<Set(Digit \cup {",", "."})>>)>>)>>,
         \* r"Unit Price:.*?per\s*.*?\$?\s*([\d,.]+)"
         <<Lit("Unit Price:"), LazyStar(<<Dot>>), Lit("per"), Star(<<S>>), LazyStar(<<Dot>>), Opt(<<Lit("$")>>), Star(<<S>>), Grp(1, <<Plus(<<Set(Digit \cup {",", "."})>>)>>)>>,
         \* r"Unit Price: \$\s*([\d,.]+)\s+per"
         <<Lit("Unit Price: $"), Star(<<S>>), Grp(1, <<Plus(<<Set(Digit \cup {",", "."})>>)>>), Plus(<<S>>), Lit("per")>>>>,
     subtotal |-> <<
         \* r"EXT Price:\s*(?:USD)?\s*([\d,.]+)"
         <<Lit("EXT Price:"), Star(<<S>>), Opt(<<Lit("USD")>>), Star(<<S>>), Grp(1, <<Plus(<<Set(Digit \cup {",", "."})>>)>>)>>,
         \* r"Amount:\s*(?:USD)?\s*([\d,.]+)"
         <<Lit("Amount:"), Star(<<S>>), Opt(<<Lit("USD")>>), Star(<<S>>), Grp(1, <<Plus(<<Set(Digit \cup {",", "."})>>)>>)>>,
         \* r"EXT Price: ([\d,.]+)"
         <<Lit("EXT Price: "), Grp(1, <<Plus(<<Set(Digit \cup {",", "."})>>)>>)>>>>]
format1_total ==
    <<
        \* r"TOTAL\s*(?:USD)?\s*([\d,.]+)"
        <<Lit("TOTAL"), Star(<<S>>), Opt(<<Lit("USD")>>), Star(<<S>>), Grp(1, <<Plus(<<Set(Digit \cup {",", "."})>>)>>)>>,
        \* r"Total:?\s*(?:USD)?\s*([\d,.]+)"
        <<Lit("Total"), Opt(<<Lit(":")>>), Star(<<S>>), Opt(<<Lit("USD")>>), Star(<<S>>), Grp(1, <<Plus(<<Set(Digit \cup {",", "."})>>)>>)>>>>
\* the total stands in for a subtotal that was not found
Format1Total(txt, h, p, total_amount) ==
    IF total_amount.raised THEN total_amount
    ELSE IF total_amount.value # ""
        THEN Done(Result(h, CurrencyIn(txt),
                         <<Put(ProductLine(p.product_name.value, p), "subtotal",
                               CleanNumericField(total_amount.value))>>))
    ELSE Done(Result(h, CurrencyIn(txt), <<ProductLine(p.product_name.value, p)>>))
Format1Products(txt, h, p) ==
    IF p.product_name.value = "" /\ p.quantity.value = ""
        THEN Done(Result(h, CurrencyIn(txt), <<>>))
    ELSE IF p.subtotal.value # ""
        THEN Done(Result(h, CurrencyIn(txt), <<ProductLine(p.product_name.value, p)>>))
    ELSE Format1Total(txt, h, p, ExtractFieldByRegex(txt, format1_total, ""))
Format1Fields(txt, h, p) ==
    IF AnyRaised(h, header_order) THEN FirstRaised(h, header_order)
    ELSE IF AnyRaised(p, product_order) THEN FirstRaised(p, product_order)
    ELSE Format1Products(txt, h, p)
ExtractFormat1Data(txt) ==
    Format1Fields(txt, HeaderFields(txt, format1_header), ProductFields(txt, format1_product))

(* extract_format2_data *)
format2_header ==
    [customer_name |-> <<
         \* r"Buyer:\s*(.*?)(?:\n|$)"
         <<Lit("Buyer:"), Star(<<S>>), Grp(1, <<LazyStar(<<Dot>>)>>), Alt(<<<<Lit("\n")>>, <<Eol>>>>)>>,
         \* r"(?:Buyer|Customer|Client):\s*(.*?)(?:\n|$)"
         <<Alt(<<<<Lit("Buyer")>>, <<Lit("Customer")>>, <<Lit("Client")>>>>), Lit(":"), Star(<<S>>), Grp(1, <<LazyStar(<<Dot>>)>>), Alt(<<<<Lit("\n")>>, <<Eol>>>>)>>,
         \* r"Buyer:?\s*(.*?Ltd\.)"
         <<Lit("Buyer"), Opt(<<Lit(":")>>), Star(<<S>>), Grp(1, <<LazyStar(<<Dot>>), Lit("Ltd.")>>)>>,
         \* r"Buyer:?\s+([^\\n]+)"
         <<Lit("Buyer"), Opt(<<Lit(":")>>), Plus(<<S>>), Grp(1, <<Plus(<<NotSet({"\\", "n"})>>)>>)>>>>,
     po_number |-> <<
         \* r"Purchase Order no:?\s*(\d+)"
         <<Lit("Purchase Order no"), Opt(<<Lit(":")>>), Star(<<S>>), Grp(1, <<Plus(<<D>>)>>)>>,
         \* r"Purchase Order no:?\s*([a-zA-Z0-9-]+)"
         <<Lit("Purchase Order no"), Opt(<<Lit(":")>>), Star(<<S>>), Grp(1, <<Plus(<<Set(Lower \cup Upper \cup Digit \cup {"-"})>>)>>)>>,
         \* r"PO (?:number|no\.?):\s*(\d+)"
         <<Lit("PO "), Alt(<<<<Lit("number")>>, <<Lit("no"), Opt(<<Lit(".")>>)>>>>), Lit(":"), Star(<<S>>), Grp(1, <<Plus(<<D>>)>>)>>>>,
     payment_terms |-> <<
         \* r"Payment Terms:\s*(.*?)(?:\n|$)"
         <<Lit("Payment Terms:"), Star(<<S>>), Grp(1, <<LazyStar(<<Dot>>)>>), Alt(<<<<Lit("\n")>>, <<Eol>>>>)>>,
         \* r"Payment:?\s*(.*?)(?:\n|$)"
         <<Lit("Payment"), Opt(<<Lit(":")>>), Star(<<S>>), Grp(1, <<LazyStar(<<Dot>>)>>), Alt(<<<<Lit("\n")>>, <<Eol>>>>)>>>>,
     destination |-> <<
         \* r"Discharge Port:\s*(.*?)(?:\n|$)"
         <<Lit("Discharge Port:"), Star(<<S>>), Grp(1, <<LazyStar(<<Dot>>)>>), Alt(<<<<Lit("\n")>>, <<Eol>>>>)>>,
         \* r"(?:Ship to|Destination|Delivery Address):\s*(.*?)(?:\n|$)"
         <<Alt(<<<<Lit("Ship to")>>, <<Lit("Destination")>>, <<Lit("Delivery Address")>>>>), Lit(":"), Star(<<S>>), Grp(1, <<LazyStar(<<Dot>>)>>), Alt(<<<<Lit("\n")>>, <<Eol>>>>)>>>>]
format2_tables ==
    [product_rows |->
         \* r"(?:[A-Za-z0-9]+)\s+(Product [A-Za-z])\s+([\d,]+)\s*kg\s+US\$?([\d.]+)\s+US\$?([\d,.]+)"
         <<Plus(<<Set(Upper \cup Lower \cup Digit)>>), Plus(<<S>>), Grp(1, <<Lit("Product "), Set(Upper \cup Lower)>>), Plus(<<S>>), Grp(2, <<Plus(<<Set(Digit \cup {","})>>)>>), Star(<<S>>), Lit("kg"), Plus(<<S>>), Lit("US"), Opt(<<Lit("$")>>), Grp(3, <<Plus(<<Set(Digit \cup {"."})>>)>>), Plus(<<S>>), Lit("US"), Opt(<<Lit("$")>>), Grp(4, <<Plus(<<Set(Digit \cup {",", "."})>>)>>)>>,
     product_sections |->
         \* r"(\d[a-z])\s+(Product [A-Za-z])\s+([\d,]+)\s*kg\s+US\$?([\d.]+)\s+US\$?([\d,.]+)"
         <<Grp(1, <<D, Set(Lower)>>), Plus(<<S>>), Grp(2, <<Lit("Product "), Set(Upper \cup Lower)>>), Plus(<<S>>), Grp(3, <<Plus(<<Set(Digit \cup {","})>>)>>), Star(<<S>>), Lit("kg"), Plus(<<S>>), Lit("US"), Opt(<<Lit("$")>>), Grp(4, <<Plus(<<Set(Digit \cup {"."})>>)>>), Plus(<<S>>), Lit("US"), Opt(<<Lit("$")>>), Grp(5, <<Plus(<<Set(Digit \cup {",", "."})>>)>>)>>,
     product_names |->
         \* r"Product ([A-Z])"
         <<Lit("Product "), Grp(1, <<Set(Upper)>>)>>,
     quantities |->
         \* r"([\d,]+)\s*kg"
         <<Grp(1, <<Plus(<<Set(Digit \cup {","})>>)>>), Star(<<S>>), Lit("kg")>>,
     prices |->
         \* r"US\$\s*([\d.]+)"
         <<Lit("US$"), Star(<<S>>), Grp(1, <<Plus(<<Set(Digit \cup {"."})>>)>>)>>,
     subtotals |->
         \* r"US\$\s*([\d,.]+)(?:\.00)?(?:\s|$)"
         <<Lit("US$"), Star(<<S>>), Grp(1, <<Plus(<<Set(Digit \cup {",", "."})>>)>>), Opt(<<Lit(".00")>>), Alt(<<<<S>>, <<Eol>>>>)>>]
format2_fallback ==
    [product_name |-> <<
         \* r"Commodity\s+(Product [A-Z])"
         <<Lit("Commodity"), Plus(<<S>>), Grp(1, <<Lit("Product "), Set(Upper)>>)>>,
         \* r"Item\s+(Product [A-Z])"
         <<Lit("Item"), Plus(<<S>>), Grp(1, <<Lit("Product "), Set(Upper)>>)>>>>,
     quantity |-> <<
         \* r"(?:[\d,]+)\s*kg"
         <<Plus(<<Set(Digit \cup {","})>>), Star(<<S>>), Lit("kg")>>,
         \* r"Quantity\s+(?:[\d,]+)"
         <<Lit("Quantity"), Plus(<<S>>), Plus(<<Set(Digit \cup {","})>>)>>>>,
     unit_price |-> <<
         \* r"US\$\s*([\d.]+)"
         <<Lit("US$"), Star(<<S>>), Grp(1, <<Plus(<<Set(Digit \cup {"."})>>)>>)>>,
         \* r"Unit price\s+US\$\s*([\d.]+)"
         <<Lit("Unit price"), Plus(<<S>>), Lit("US$"), Star(<<S>>), Grp(1, <<Plus(<<Set(Digit \cup {"."})>>)>>)>>>>,
     subtotal |-> <<
         \* r"Total Amount\s+US\$\s*([\d,.]+)"
         <<Lit("Total Amount"), Plus(<<S>>), Lit("US$"), Star(<<S>>), Grp(1, <<Plus(<<Set(Digit \cup {",", "."})>>)>>)>>,
         \* r"US\$\s*([\d,.]+)(?:\.00)?"
         <<Lit("US$"), Star(<<S>>), Grp(1, <<Plus(<<Set(Digit \cup {",", "."})>>)>>), Opt(<<Lit(".00")>>)>>>>]
\* method 3: the i-th name with the i-th quantity, price and subtotal
RECURSIVE Format2Zip(_, _, _, _, _, _)
Format2Zip(txt, i, product_names, quantities, prices, subtotals) ==
    IF i > Len(product_names) THEN <<>>
    ELSE (IF i <= Len(quantities) /\ i <= Len(prices) /\ i <= Len(subtotals)
              THEN <<[product_name |-> "Product " \o GroupOf(product_names[i], txt, 1),
                      quantity |-> CleanNumericField(GroupOf(quantities[i], txt, 1)),
                      unit_price |-> CleanNumericField(GroupOf(prices[i], txt, 1)),
                      subtotal |-> CleanNumericField(GroupOf(subtotals[i], txt, 1))]>>
              ELSE <<>>)
         \o Format2Zip(txt, i + 1, product_names, quantities, prices, subtotals)
\* subtotals[:len(product_names)] when there are more subtotals than names
Format2Lists(txt, product_names, subtotals) ==
    Format2Zip(txt, 1, product_names,
               FindAll(format2_tables.quantities, txt, NoFlags),
               FindAll(format2_tables.prices, txt, NoFlags),
               IF Len(subtotals) > Len(product_names)
                   THEN SubSeq(subtotals, 1, Len(product_names)) ELSE subtotals)
Format2Sections(txt, product_sections) ==
    IF product_sections # <<>> THEN RowLines(product_sections, txt, 2)
    ELSE Format2Lists(txt, FindAll(format2_tables.product_names, txt, NoFlags),
                      FindAll(format2_tables.subtotals, txt, NoFlags))
Format2Rows(txt, product_rows) ==
    IF product_rows # <<>> THEN RowLines(product_rows, txt, 1)
    ELSE Format2Sections(txt, FindAll(format2_tables.product_sections, txt, IgnoreCase))
\* the fallback when no table gave a product
Format2Fallback(txt, h, p) ==
    IF AnyRaised(p, product_order) THEN FirstRaised(p, product_order)
    ELSE IF p.product_name.value = "" /\ p.quantity.value = ""
        THEN Done(Result(h, CurrencyIn(txt), <<>>))
    ELSE Done(Result(h, CurrencyIn(txt),
                     <<ProductLine(IF p.product_name.value # "" THEN p.product_name.value
                                   ELSE "Unknown Product", p)>>))
Format2Products(txt, h, products) ==
    IF products # <<>> THEN Done(Result(h, CurrencyIn(txt), products))
    ELSE Format2Fallback(txt, h, ProductFields(txt, format2_fallback))
Format2Fields(txt, h) ==
    IF AnyRaised(h, header_order) THEN FirstRaised(h, header_order)
    ELSE Format2Products(txt, h,
                         Format2Rows(txt, FindAll(format2_tables.product_rows, txt, IgnoreCase)))
ExtractFormat2Data(txt) == Format2Fields(txt, HeaderFields(txt, format2_header))

(* extract_format3_data *)
format3_header ==
    [customer_name |-> <<
         \* r"Contract Party\s*:\s*(.*?)(?:\n|$)"
         <<Lit("Contract Party"), Star(<<S>>), Lit(":"), Star(<<S>>), Grp(1, <<LazyStar(<<Dot>>)>>), Alt(<<<<Lit("\n")>>, <<Eol>>>>)>>,
         \* r"B/L CONSIGNEE\s*:\s*(.*?)(?:\n|$)"
         <<Lit("B/L CONSIGNEE"), Star(<<S>>), Lit(":"), Star(<<S>>), Grp(1, <<LazyStar(<<Dot>>)>>), Alt(<<<<Lit("\n")>>, <<Eol>>>>)>>,
         \* r"Contract Party\s*:\s*(Apple LTD\.)"
         <<Lit("Contract Party"), Star(<<S>>), Lit(":"), Star(<<S>>), Grp(1, <<Lit("Apple LTD.")>>)>>,
         \* r"Contract Party.*?(Apple LTD\.)"
         <<Lit("Contract Party"), LazyStar(<<Dot>>), Grp(1, <<Lit("Apple LTD.")>>)>>>>,
     po_number |-> <<
         \* r"(?:Order No\.|Buyers(?:'|')?\s+Order No\.)\s*(.*?)(?:\n|Grade|Origin)"
         <<Alt(<<<<Lit("Order No.")>>, <<Lit("Buyers"), Opt(<<Alt(<<<<Lit("'")>>, <<Lit("'")>>>>)>>), Plus(<<S>>), Lit("Order No.")>>>>), Star(<<S>>), Grp(1, <<LazyStar(<<Dot>>)>>), Alt(<<<<Lit("\n")>>, <<Lit("Grade")>>, <<Lit("Origin")>>>>)>>,
         \* r"(?:Order No\.|Buyers(?:'|')?\s+Order No\.)\s*(M[a-zA-Z0-9]+)"
         <<Alt(<<<<Lit("Order No.")>>, <<Lit("Buyers"), Opt(<<Alt(<<<<Lit("'")>>, <<Lit("'")>>>>)>>), Plus(<<S>>), Lit("Order No.")>>>>), Star(<<S>>), Grp(1, <<Lit("M"), Plus(<<Set(Lower \cup Upper \cup Digit)>>)>>)>>,
         \* r"Buyers(?:'|')?\s+Order No\.(.*?)(?:\n|Grade|$)"
         <<Lit("Buyers"), Opt(<<Alt(<<<<Lit("'")>>, <<Lit("'")>>>>)>>), Plus(<<S>>), Lit("Order No."), Grp(1, <<LazyStar(<<Dot>>)>>), Alt(<<<<Lit("\n")>>, <<Lit("Grade")>>, <<Eol>>>>)>>>>,
     payment_terms |-> <<
         \* r"Payment term\s*\n?\s*(.*?)(?:\n|$)"
         <<Lit("Payment term"), Star(<<S>>), Opt(<<Lit("\n")>>), Star(<<S>>), Grp(1, <<LazyStar(<<Dot>>)>>), Alt(<<<<Lit("\n")>>, <<Eol>>>>)>>,
         \* r"Payment\s*:\s*(.*?)(?:\n|$)"
         <<Lit("Payment"), Star(<<S>>), Lit(":"), Star(<<S>>), Grp(1, <<LazyStar(<<Dot>>)>>), Alt(<<<<Lit("\n")>>, <<Eol>>>>)>>,
         \* r"Payment term\s+(.*?advance)"
         <<Lit("Payment term"), Plus(<<S>>), Grp(1, <<LazyStar(<<Dot>>), Lit("advance")>>)>>,
         \* r"Payment\s+term\s+(100% TT IN ADVANCE)"
         <<Lit("Payment"), Plus(<<S>>), Lit("term"), Plus(<<S>>), Grp(1, <<Lit("100% TT IN ADVANCE")>>)>>>>,
     destination |-> <<
         \* r"PORT OF DISCHARGE\s*(.*?)(?:\n|$)"
         <<Lit("PORT OF DISCHARGE"), Star(<<S>>), Grp(1, <<LazyStar(<<Dot>>)>>), Alt(<<<<Lit("\n")>>, <<Eol>>>>)>>,
         \* r"PORT OF\s*DISCHARGE\s*(.*?)(?:\n|Payment)"
         <<Lit("PORT OF"), Star(<<S>>), Lit("DISCHARGE"), Star(<<S>>), Grp(1, <<LazyStar(<<Dot>>)>>), Alt(<<<<Lit("\n")>>, <<Lit("Payment")>>>>)>>,
         \* r"PORT OF\s*DISCHARGE\s+(CIF SHEKOU PORT, CHINA)"
         <<Lit("PORT OF"), Star(<<S>>), Lit("DISCHARGE"), Plus(<<S>>), Grp(1, <<Lit("CIF SHEKOU PORT, CHINA")>>)>>>>]
format3_product ==
    [grade |-> <<
         \* r"Grade\s+([A-Za-z0-9]+)"
         <<Lit("Grade"), Plus(<<S>>), Grp(1, <<Plus(<<Set(Upper \cup Lower \cup Digit)>>)>>)>>,
         \* r"Grade\s+(B)"
         <<Lit("Grade"), Plus(<<S>>), Grp(1, <<Lit("B")>>)>>>>,
     quantity |-> <<
         \* r"Qt'y\s*\(mt\)\s*([\d.]+)"
         <<Lit("Qt'y"), Star(<<S>>), Lit("(mt)"), Star(<<S>>), Grp(1, <<Plus(<<Set(Digit \cup {"."})>>)>>)>>,
         \* r"Qt'y \(mt\)\s+(28\.8)"
         <<Lit("Qt'y (mt)"), Plus(<<S>>), Grp(1, <<Lit("28.8")>>)>>>>,
     unit_price |-> <<
         \* r"Unit Price\s*\([^)]+\)\s*([\d,.]+)"
         <<Lit("Unit Price"), Star(<<S>>), Lit("("), Plus(<<NotSet({")"})>>), Lit(")"), Star(<<S>>), Grp(1, <<Plus(<<Set(Digit \cup {",", "."})>>)>>)>>,
         \* r"Unit Price\s*\(USD/mt\)\s+([\d,.]+)"
         <<Lit("Unit Price"), Star(<<S>>), Lit("(USD/mt)"), Plus(<<S>>), Grp(1, <<Plus(<<Set(Digit \cup {",", "."})>>)>>)>>,
         \* r"USD ([\d,.]+\.00)"
         <<Lit("USD "), Grp(1, <<Plus(<<Set(Digit \cup {",", "."})>>), Lit(".00")>>)>>>>,
     subtotal |-> <<
         \* r"Total Amount\s*([\d,.]+)"
         <<Lit("Total Amount"), Star(<<S>>), Grp(1, <<Plus(<<Set(Digit \cup {",", "."})>>)>>)>>,
         \* r"Total Amount\s+USD ([\d,.]+)"
         <<Lit("Total Amount"), Plus(<<S>>), Lit("USD "), Grp(1, <<Plus(<<Set(Digit \cup {",", "."})>>)>>)>>,
         \* r"USD ([\d,.]+)\.00\s+CIF"
         <<Lit("USD "), Grp(1, <<Plus(<<Set(Digit \cup {",", "."})>>)>>), Lit(".00"), Plus(<<S>>), Lit("CIF")>>>>]
GradeFields(txt, recipe) ==
    [product_name |-> ExtractFieldByRegex(txt, recipe.grade, ""),
     quantity |-> ExtractFieldByRegex(txt, recipe.quantity, ""),
     unit_price |-> ExtractFieldByRegex(txt, recipe.unit_price, ""),
     subtotal |-> ExtractFieldByRegex(txt, recipe.subtotal, "")]
Format3Fields(h, p) ==
    IF AnyRaised(h, header_order) THEN FirstRaised(h, header_order)
    ELSE IF AnyRaised(p, product_order) THEN FirstRaised(p, product_order)
    ELSE IF p.product_name.value = "" /\ p.quantity.value = "" THEN Done(Result(h, "USD", <<>>))
    ELSE Done(Result(h, "USD",
                     <<ProductLine(IF p.product_name.value # ""
                                       THEN "Grade " \o p.product_name.value
                                       ELSE "Unknown Product", p)>>))
ExtractFormat3Data(txt) ==
    Format3Fields(HeaderFields(txt, format3_header), GradeFields(txt, format3_product))

(* extract_generic_data *)
generic_header ==
    [customer_name |-> <<
         \* r"(?:Customer|Client|Buyer|Company|Purchaser):\s*(.*?)(?:\n|$)"
         <<Alt(<<<<Lit("Customer")>>, <<Lit("Client")>>, <<Lit("Buyer")>>, <<Lit("Company")>>, <<Lit("Purchaser")>>>>), Lit(":"), Star(<<S>>), Grp(1, <<LazyStar(<<Dot>>)>>), Alt(<<<<Lit("\n")>>, <<Eol>>>>)>>,
         \* r"(?:To|Bill to):\s*(.*?)(?:\n|$)"
         <<Alt(<<<<Lit("To")>>, <<Lit("Bill to")>>>>), Lit(":"), Star(<<S>>), Grp(1, <<LazyStar(<<Dot>>)>>), Alt(<<<<Lit("\n")>>, <<Eol>>>>)>>,
         \* r"Contract Party\s*:\s*(.*?)(?:\n|$)"
         <<Lit("Contract Party"), Star(<<S>>), Lit(":"), Star(<<S>>), Grp(1, <<LazyStar(<<Dot>>)>>), Alt(<<<<Lit("\n")>>, <<Eol>>>>)>>,
         \* r"B/L CONSIGNEE\s*:\s*(.*?)(?:\n|$)"
         <<Lit("B/L CONSIGNEE"), Star(<<S>>), Lit(":"), Star(<<S>>), Grp(1, <<LazyStar(<<Dot>>)>>), Alt(<<<<Lit("\n")>>, <<Eol>>>>)>>,
         \* r"ABC Company\s*(.*?)(?:\n|$)"
         <<Lit("ABC Company"), Star(<<S>>), Grp(1, <<LazyStar(<<Dot>>)>>), Alt(<<<<Lit("\n")>>, <<Eol>>>>)>>,
         \* r"\(Buyer(?:'|')s Info\).*?([A-Za-z0-9\s]+Company)"
         <<Lit("(Buyer"), Alt(<<<<Lit("'")>>, <<Lit("'")>>>>), Lit("s Info)"), LazyStar(<<Dot>>), Grp(1, <<Plus(<<Set(Upper \cup Lower \cup Digit \cup Space)>>), Lit("Company")>>)>>>>,
     po_number |-> <<
         \* r"(?:PO|Purchase Order|Order) (?:No|Number|#)\.?:?\s*(\w+[-\d]+)"
         <<Alt(<<<<Lit("PO")>>, <<Lit("Purchase Order")>>, <<Lit("Order")>>>>), Lit(" "), Alt(<<<<Lit("No")>>, <<Lit("Number")>>, <<Lit("#")>>>>), Opt(<<Lit(".")>>), Opt(<<Lit(":")>>), Star(<<S>>), Grp(1, <<Plus(<<W>>), Plus(<<Set(Digit \cup {"-"})>>)>>)>>,
         \* r"(?:PO|Purchase Order|Order) (?:No|Number|#)\.?:?\s*(\d+)"
         <<Alt(<<<<Lit("PO")>>, <<Lit("Purchase Order")>>, <<Lit("Order")>>>>), Lit(" "), Alt(<<<<Lit("No")>>, <<Lit("Number")>>, <<Lit("#")>>>>), Opt(<<Lit(".")>>), Opt(<<Lit(":")>>), Star(<<S>>), Grp(1, <<Plus(<<D>>)>>)>>,
         \* r"Order No\.\s*(.*?)(?:\n|Grade|Origin)"
         <<Lit("Order No."), Star(<<S>>), Grp(1, <<LazyStar(<<Dot>>)>>), Alt(<<<<Lit("\n")>>, <<Lit("Grade")>>, <<Lit("Origin")>>>>)>>,
         \* r"Buyers(?:'|')?\s+Order No\.\s*(.*?)(?:\n|Grade|$)"
         <<Lit("Buyers"), Opt(<<Alt(<<<<Lit("'")>>, <<Lit("'")>>>>)>>), Plus(<<S>>), Lit("Order No."), Star(<<S>>), Grp(1, <<LazyStar(<<Dot>>)>>), Alt(<<<<Lit("\n")>>, <<Lit("Grade")>>, <<Eol>>>>)>>,
         \* r"Purchase Order:?\s*([a-zA-Z0-9-]+)"
         <<Lit("Purchase Order"), Opt(<<Lit(":")>>), Star(<<S>>), Grp(1, <<Plus(<<Set(Lower \cup Upper \cup Digit \cup {"-"})>>)>>)>>>>,
     payment_terms |-> <<
         \* r"(?:Payment Terms?|Terms of Payment|Terms|Payment):\s*(.*?)(?:\n|$)"
         <<Alt(<<<<Lit("Payment Term"), Opt(<<Lit("s")>>)>>, <<Lit("Terms of Payment")>>, <<Lit("Terms")>>, <<Lit("Payment")>>>>), Lit(":"), Star(<<S>>), Grp(1, <<LazyStar(<<Dot>>)>>), Alt(<<<<Lit("\n")>>, <<Eol>>>>)>>,
         \* r"Net Due within\s*(.*?)(?:\n|$)"
         <<Lit("Net Due within"), Star(<<S>>), Grp(1, <<LazyStar(<<Dot>>)>>), Alt(<<<<Lit("\n")>>, <<Eol>>>>)>>,
         \* r"Payment term\s*\n?\s*(.*?)(?:\n|$)"
         <<Lit("Payment term"), Star(<<S>>), Opt(<<Lit("\n")>>), Star(<<S>>), Grp(1, <<LazyStar(<<Dot>>)>>), Alt(<<<<Lit("\n")>>, <<Eol>>>>)>>>>,
     destination |-> <<
         \* r"(?:Destination|Ship to|Delivery Address|Port of Discharge|Discharge Port|PORT OF DISCHARGE):\s*(.*?)(?:\n|$)"
         <<Alt(<<<<Lit("Destination")>>, <<Lit("Ship to")>>, <<Lit("Delivery Address")>>, <<Lit("Port of Discharge")>>, <<Lit("Discharge Port")>>, <<Lit("PORT OF DISCHARGE")>>>>), Lit(":"), Star(<<S>>), Grp(1, <<LazyStar(<<Dot>>)>>), Alt(<<<<Lit("\n")>>, <<Eol>>>>)>>,
         \* r"(?:To|Deliver to):\s*(.*?)(?:\n|$)"
         <<Alt(<<<<Lit("To")>>, <<Lit("Deliver to")>>>>), Lit(":"), Star(<<S>>), Grp(1, <<LazyStar(<<Dot>>)>>), Alt(<<<<Lit("\n")>>, <<Eol>>>>)>>>>]
generic_tables ==
    [product_rows |->
         \* r"([A-Za-z0-9]+)\s+(Product [A-Za-z]|Grade [A-Za-z0-9]+)\s+([\d,]+)\s*(?:kg|mt)\s+(?:US\$)?([\d.]+)\s+(?:US\$)?([\d,.]+)"
         <<Grp(1, <<Plus(<<Set(Upper \cup Lower \cup Digit)>>)>>), Plus(<<S>>), Grp(2, <<Alt(<<<<Lit("Product "), Set(Upper \cup Lower)>>, <<Lit("Grade "), Plus(<<Set(Upper \cup Lower \cup Digit)>>)>>>>)>>), Plus(<<S>>), Grp(3, <<Plus(<<Set(Digit \cup {","})>>)>>), Star(<<S>>), Alt(<<<<Lit("kg")>>, <<Lit("mt")>>>>), Plus(<<S>>), Opt(<<Lit("US$")>>), Grp(4, <<Plus(<<Set(Digit \cup {"."})>>)>>), Plus(<<S>>), Opt(<<Lit("US$")>>), Grp(5, <<Plus(<<Set(Digit \cup {",", "."})>>)>>)>>,
     product_sections |->
         \* r"(?:Product [A-Za-z]|Grade [A-Za-z0-9]+|Item:.*?).*?(\d+)(?:\s*|\n+)(?:kg|mt|KG|MT).*?(?:US\$|Unit Price:?\s*\$?)?\s*([\d,.]+).*?(?:US\$)?\s*([\d,.]+)"
         <<Alt(<<<<Lit("Product "), Set(Upper \cup Lower)>>, <<Lit("Grade "), Plus(<<Set(Upper \cup Lower \cup Digit)>>)>>, <<Lit("Item:"), LazyStar(<<Dot>>)>>>>), LazyStar(<<Dot>>), Grp(1, <<Plus(<<D>>)>>), Alt(<<<<Star(<<S>>)>>, <<Plus(<<Lit("\n")>>)>>>>), Alt(<<<<Lit("kg")>>, <<Lit("mt")>>, <<Lit("KG")>>, <<Lit("MT")>>>>), LazyStar(<<Dot>>), Opt(<<Alt(<<<<Lit("US$")>>, <<Lit("Unit Price"), Opt(<<Lit(":")>>), Star(<<S>>), Opt(<<Lit("$")>>)>>>>)>>), Star(<<S>>), Grp(2, <<Plus(<<Set(Digit \cup {",", "."})>>)>>), LazyStar(<<Dot>>), Opt(<<Lit("US$")>>), Star(<<S>>), Grp(3, <<Plus(<<Set(Digit \cup {",", "."})>>)>>)>>,
     name_match |->
         \* r"(?:Product ([A-Z])|Grade ([A-Za-z0-9]+)|Item:\s*(.*?)(?:\n|$))"
         <<Alt(<<<<Lit("Product "), Grp(1, <<Set(Upper)>>)>>, <<Lit("Grade "), Grp(2, <<Plus(<<Set(Upper \cup Lower \cup Digit)>>)>>)>>, <<Lit("Item:"), Star(<<S>>), Grp(3, <<LazyStar(<<Dot>>)>>), Alt(<<<<Lit("\n")>>, <<Eol>>>>)>>>>)>>]
generic_product ==
    [product_name |-> <<
         \* r"Item:\s*(.*?)(?:\n|$)"
         <<Lit("Item:"), Star(<<S>>), Grp(1, <<LazyStar(<<Dot>>)>>), Alt(<<<<Lit("\n")>>, <<Eol>>>>)>>,
         \* r"Product:?\s*(.*?)(?:\n|Quantity)"
         <<Lit("Product"), Opt(<<Lit(":")>>), Star(<<S>>), Grp(1, <<LazyStar(<<Dot>>)>>), Alt(<<<<Lit("\n")>>, <<Lit("Quantity")>>>>)>>,
         \* r"Grade\s+([A-Za-z0-9]+)"
         <<Lit("Grade"), Plus(<<S>>), Grp(1, <<Plus(<<Set(Upper \cup Lower \cup Digit)>>)>>)>>>>,
     quantity |-> <<
         \* r"Quantity:\s*([\d,.]+)\s*(?:KG|kg|MT|mt)"
         <<Lit("Quantity:"), Star(<<S>>), Grp(1, <<Plus(<<Set(Digit \cup {",", "."})>>)>>), Star(<<S>>), Alt(<<<<Lit("KG")>>, <<Lit("kg")>>, <<Lit("MT")>>, <<Lit("mt")>>>>)>>,
         \* r"Qty:?\s*([\d,.]+)\s*(?:KG|kg|MT|mt)"
         <<Lit("Qty"), Opt(<<Lit(":")>>), Star(<<S>>), Grp(1, <<Plus(<<Set(Digit \cup {",", "."})>>)>>), Star(<<S>>), Alt(<<<<Lit("KG")>>, <<Lit("kg")>>, <<Lit("MT")>>, <<Lit("mt")>>>>)>>,
         \* r"Qt'y\s*\(mt\)\s*([\d.]+)"
         <<Lit("Qt'y"), Star(<<S>>), Lit("(mt)"), Star(<<S>>), Grp(1, <<Plus(<<Set(Digit \cup {"."})>>)>>)>>>>,
     unit_price |-> <<
         \* r"Unit Price:\s*\$?\s*([\d,.]+)"
         <<Lit("Unit Price:"), Star(<<S>>), Opt(<<Lit("$")>>), Star(<<S>>), Grp(1, <<Plus(<<Set(Digit \cup {",", "."})>>)>>)>>,
         \* r"Unit Price:.*?per\s*.*?\$?\s*([\d,.]+)"
         <<Lit("Unit Price:"), LazyStar(<<Dot>>), Lit("per"), Star(<<S>>), LazyStar(<<Dot>>), Opt(<<Lit("$")>>), Star(<<S>>), Grp(1, <<Plus(<<Set(Digit \cup {",", "."})>>)>>)>>,
         \* r"Unit Price\s*\([^)]+\)\s*([\d,.]+)"
         <<Lit("Unit Price"), Star(<<S>>), Lit("("), Plus(<<NotSet({")"})>>), Lit(")"), Star(<<S>>), Grp(1, <<Plus(<<Set(Digit \cup {",", "."})>>)>>)>>>>,
     subtotal |-> <<
         \* r"EXT Price:\s*([\d,.]+)"
         <<Lit("EXT Price:"), Star(<<S>>), Grp(1, <<Plus(<<Set(Digit \cup {",", "."})>>)>>)>>,
         \* r"Amount:\s*([\d,.]+)"
         <<Lit("Amount:"), Star(<<S>>), Grp(1, <<Plus(<<Set(Digit \cup {",", "."})>>)>>)>>,
         \* r"Total Amount\s*([\d,.]+)"
         <<Lit("Total Amount"), Star(<<S>>), Grp(1, <<Plus(<<Set(Digit \cup {",", "."})>>)>>)>>>>]
GenericCurrency(code) == IF code # "" THEN code ELSE "USD"
Truthy(m, g) == m.caps[g].set /\ m.caps[g].to > m.caps[g].from
\* method 2: the name of every section is read from the first name in the text
SectionName(txt, i, name_match) ==
    IF ~name_match.ok THEN "Unknown Product " \o IntStr(i)
    ELSE IF Truthy(name_match, 1) THEN "Product " \o GroupOf(name_match, txt, 1)
    ELSE IF Truthy(name_match, 2) THEN "Grade " \o GroupOf(name_match, txt, 2)
    ELSE IF Truthy(name_match, 3) THEN GroupOf(name_match, txt, 3)
    ELSE ""
RECURSIVE SectionLines(_, _, _, _)
SectionLines(txt, i, product_sections, name_match) ==
    IF i > Len(product_sections) THEN <<>>
    ELSE <<[product_name |-> SectionName(txt, i, name_match),
            quantity |-> CleanNumericField(GroupOf(product_sections[i], txt, 1)),
            unit_price |-> CleanNumericField(GroupOf(product_sections[i], txt, 2)),
            subtotal |-> CleanNumericField(GroupOf(product_sections[i], txt, 3))]>>
         \o SectionLines(txt, i + 1, product_sections, name_match)
\* method 3: the single fields
GenericSingle(txt, h, p) ==
    IF AnyRaised(p, product_order) THEN FirstRaised(p, product_order)
    ELSE IF p.product_name.value = "" /\ p.quantity.value = ""
        THEN Done(Result(h, GenericCurrency(CurrencyIn(txt)), <<>>))
    ELSE Done(Result(h, GenericCurrency(CurrencyIn(txt)),
                     <<ProductLine(IF p.product_name.value # "" THEN p.product_name.value
                                   ELSE "Unknown Product", p)>>))
GenericSections(txt, h, product_sections) ==
    IF product_sections # <<>>
        THEN Done(Result(h, GenericCurrency(CurrencyIn(txt)),
                         SectionLines(txt, 1, product_sections,
                                      Search(generic_tables.name_match, txt, NoFlags))))
    ELSE GenericSingle(txt, h, ProductFields(txt, generic_product))
GenericRows(txt, h, product_rows) ==
    IF product_rows # <<>>
        THEN Done(Result(h, GenericCurrency(CurrencyIn(txt)), RowLines(product_rows, txt, 2)))
    ELSE GenericSections(txt, h, FindAll(generic_tables.product_sections, txt, DotAll))
GenericFields(txt, h) ==
    IF AnyRaised(h, header_order) THEN FirstRaised(h, header_order)
    ELSE GenericRows(txt, h, FindAll(generic_tables.product_rows, txt, NoFlags))
ExtractGenericData(txt) == GenericFields(txt, HeaderFields(txt, generic_header))

(***************************************************************************)
(* extract_po_data                                                         *)
(***************************************************************************)
\* product_name for name only, amount left out
AliasedNameOnly(product) ==
    IF ~Has(product, "product_name") /\ Has(product, "name")
        THEN Put(product, "product_name", product["name"])
        ELSE product
\* the aliases of one product line: amount for subtotal, product_name for name
Aliased(product) ==
    IF Has(product, "subtotal") /\ ~Has(product, "amount")
        THEN (IF ~Has(product, "product_name") /\ Has(product, "name")
                  THEN Put(Put(product, "amount", product["subtotal"]),
                           "product_name", product["name"])
                  ELSE Put(product, "amount", product["subtotal"]))
    ELSE IF ~Has(product, "product_name") /\ Has(product, "name")
        THEN Put(product, "product_name", product["name"])
    ELSE product
RECURSIVE AliasedLines(_)
AliasedLines(products) ==
    IF products = <<>> THEN <<>>
    ELSE <<Aliased(Head(products))>> \o AliasedLines(Tail(products))
Standardized(cleaned_result) ==
    IF Has(cleaned_result, "products")
        THEN Put(cleaned_result, "products", AliasedLines(cleaned_result["products"]))
        ELSE cleaned_result
RawResult(po_format, txt) ==
    CASE po_format = "format1" -> ExtractFormat1Data(txt)
      [] po_format = "format2" -> ExtractFormat2Data(txt)
      [] po_format = "format3" -> ExtractFormat3Data(txt)
      [] OTHER -> ExtractGenericData(txt)
\* what the call produces: the exception an extractor raised, which nothing
\* catches, or the returned record, with the format and the extractor's draft
Pipeline(po_format, raw_result) ==
    IF raw_result.raised
        THEN [raised |-> TRUE, error |-> raw_result.error, po_format |-> po_format]
        ELSE [raised |-> FALSE, po_format |-> po_format, raw_result |-> raw_result.result,
              result |-> Standardized(ValidateAndCleanResult(raw_result.result).ret)]
Dispatch(po_format, txt) == Pipeline(po_format, RawResult(po_format, txt))
ExtractPoData(txt) == Dispatch(IdentifyPoFormat(txt), txt)

(***************************************************************************)
(* Inputs of the model                                                     *)
(***************************************************************************)
Nil == [nil |-> TRUE]

\* numeric strings: every string of at most MaxLen characters over a digit pair, both
\* separators and a currency sign, and the examples of the specification
MaxLen == 5
NumericChars == {"1", "5", ",", ".", "$"}
RECURSIVE StringsOver(_, _)
StringsOver(chars, n) ==
    IF n = 0 THEN {""}
    ELSE LET shorter == StringsOver(chars, n - 1) IN
         shorter \cup {t \o c : t \in shorter, c \in chars}
NumericInputs ==
    StringsOver(NumericChars, MaxLen)
        \cup {"1,234.56", "1.234,56", "1234,56", "1,234,567", "abc", "US$ 2,500.00 kg"}

\* draft records: what an extractor returns, with every value left open
MaxProducts == 2
DraftNames == {"", "Widget", "5 kg"}
product_keys == {"product_name", "quantity", "unit_price", "subtotal"}
FullLines ==
    {[product_name |-> n, quantity |-> q, unit_price |-> u, subtotal |-> t] :
        n \in DraftNames, q \in {"", "0", "10"}, u \in {"", "2.5"}, t \in {"", "25"}}
\* lines that lack one key
PartialLines ==
    {[k \in product_keys \ {gone} |->
        [product_name |-> "Widget", quantity |-> "10", unit_price |-> "2.5", subtotal |-> "25"][k]] :
        gone \in product_keys}
DraftLines == FullLines \cup PartialLines
RECURSIVE SeqsUpTo(_, _)
SeqsUpTo(items, n) ==
    IF n = 0 THEN {<<>>}
    ELSE LET shorter == SeqsUpTo(items, n - 1) IN
         shorter \cup {Append(q, x) : q \in shorter, x \in items}
DraftHeaders ==
    {[customer_name |-> "", po_number |-> "", currency |-> "", payment_terms |-> "",
      destination |-> ""],
     [customer_name |-> " Acme  Corp ", po_number |-> ":PO-1.", currency |-> "JPY",
      payment_terms |-> "Net 30", destination |-> "Kobe"]}
Drafts == {Put(h, "products", ps) : h \in DraftHeaders, ps \in SeqsUpTo(DraftLines, MaxProducts)}

\* texts: at most MaxLines lines of a purchase order, and the scenario of the
\* specification
MaxLines == 2
TextLines ==
    {"Supplier: X", "100 kg", "Item: Widget", "Buyer: Acme", "Grade B", "Ship to: Kobe",
     "Quantity: 10 KG", "Unit Price: $2.5", "Commodity", "Item: 5 kg", "Order No. M12",
     "EXT Price: 25"}
ScenarioText ==
    "Purchase Order No: PO-2024-001\nBill To: Acme Corp\nWidget A  10  2.50  25.00\nTotal: 25.00"
RECURSIVE JoinLines(_)
JoinLines(lines) ==
    IF lines = <<>> THEN ""
    ELSE IF Len(lines) = 1 THEN lines[1]
    ELSE lines[1] \o "\n" \o JoinLines(Tail(lines))
Texts == {JoinLines(lines) : lines \in SeqsUpTo(TextLines, MaxLines)} \cup {ScenarioText}

(***************************************************************************)
(* The numeric normalizer applied to one input                             *)
(***************************************************************************)
InitNormalize ==
    /\ value \in NumericInputs
    /\ normalized_text = ""
    /\ draft = Nil /\ data = Nil /\ cleaned = Nil /\ recleaned = Nil
    /\ text = "" /\ outcome = Nil
    /\ pc = "input"
    /\ calls = <<>> /\ log_record = Nil /\ field_patterns = <<>>
    /\ db = Nil /\ request = Nil /\ response = Nil

CallCleanNumericField ==
    /\ pc = "input"
    /\ normalized_text' = CleanNumericField(value)
    /\ pc' = "normalized"
    /\ UNCHANGED <<value, draft, data, cleaned, recleaned, text, outcome, calls, log_record, field_patterns,
                   db, request, response>>

NextNormalize == CallCleanNumericField
SpecNormalize == InitNormalize /\ [][NextNormalize]_vars

(***************************************************************************)
(* The validator applied to a draft record, and again to what it returned  *)
(***************************************************************************)
InitValidate ==
    /\ draft \in Drafts
    /\ data = draft
    /\ cleaned = Nil /\ recleaned = Nil
    /\ value = "" /\ normalized_text = ""
    /\ text = "" /\ outcome = Nil
    /\ pc = "draft"
    /\ calls = <<>> /\ log_record = Nil /\ field_patterns = <<>>
    /\ db = Nil /\ request = Nil /\ response = Nil

CallValidate ==
    /\ pc = "draft"
    /\ LET v == ValidateAndCleanResult(data) IN
       /\ cleaned' = v.ret
       /\ data' = v.arg
    /\ pc' = "validated"
    /\ UNCHANGED <<value, normalized_text, draft, recleaned, text, outcome, calls, log_record, field_patterns,
                   db, request, response>>

\* the second call works on the returned record, whose products list is still the
\* first argument's list; cleaned stays the value the first call returned
CallValidateAgain ==
    /\ pc = "validated"
    /\ LET v == ValidateAndCleanResult(cleaned) IN
       /\ recleaned' = v.ret
       /\ data' = Put(data, "products", v.arg["products"])
    /\ pc' = "revalidated"
    /\ UNCHANGED <<value, normalized_text, draft, cleaned, text, outcome, calls, log_record, field_patterns,
                   db, request, response>>

NextValidate == CallValidate \/ CallValidateAgain
SpecValidate == InitValidate /\ [][NextValidate]_vars

(***************************************************************************)
(* extract_po_data called on a text                                        *)
(***************************************************************************)
InitExtract ==
    /\ text \in Texts
    /\ outcome = Nil
    /\ value = "" /\ normalized_text = ""
    /\ draft = Nil /\ data = Nil /\ cleaned = Nil /\ recleaned = Nil
    /\ pc = "text"
    /\ calls = <<>> /\ log_record = Nil /\ field_patterns = <<>>
    /\ db = Nil /\ request = Nil /\ response = Nil

CallExtractPoData ==
    /\ pc = "text"
    /\ outcome' = ExtractPoData(text)
    /\ pc' = "extracted"
    /\ UNCHANGED <<value, normalized_text, draft, data, cleaned, recleaned, text, calls, log_record, field_patterns,
                   db, request, response>>

NextExtract == CallExtractPoData
SpecExtract == InitExtract /\ [][NextExtract]_vars

(***************************************************************************)
(* Properties of the pipeline                                              *)
(***************************************************************************)
\* C1: for every text extract_po_data returns without raising, and the record
\* has customer_name, po_number, currency, payment_terms and destination as
\* strings and at least one product
C1_AlwaysWellFormed ==
    pc = "extracted" =>
        /\ ~outcome.raised
        /\ \A f \in {"customer_name", "po_number", "currency", "payment_terms", "destination"} :
               Has(outcome.result, f) /\ outcome.result[f] \in STRING
        /\ Len(outcome.result["products"]) >= 1

\* C2: when a stage of extract_po_data raises, the call still returns: a
\* defaulted record whose extraction_confidence is 0
C2_ExceptionsCaught ==
    pc = "extracted" /\ RawResult(IdentifyPoFormat(text), text).raised =>
        /\ ~outcome.raised
        /\ Has(outcome.result, "extraction_confidence")
        /\ outcome.result["extraction_confidence"] = 0

\* C5: every product line of a returned record has name, quantity, unit price
\* and subtotal, and a numeric field the extractor did not recover is "0", never
\* the empty string
C5_NumericFieldsNeverEmpty ==
    pc = "extracted" /\ ~outcome.raised =>
        \A i \in DOMAIN outcome.result["products"] :
            /\ product_keys \subseteq DOMAIN outcome.result["products"][i]
            /\ \A f \in {"quantity", "unit_price", "subtotal"} :
                   outcome.result["products"][i][f] # ""

(***************************************************************************)
(* Properties of the validator                                             *)
(***************************************************************************)
\* C3: validation is idempotent: validating the returned record again gives the
\* same record, field for field, every product line included
C3_ValidateIdempotent == pc = "revalidated" => recleaned = cleaned

\* C4: after validation the products sequence is never empty; for an empty draft
\* it is exactly one placeholder line "Unknown Product" with "0" in quantity,
\* unit_price and subtotal; for a draft with products no line is dropped
C4_ProductsNeverEmpty ==
    pc \in {"validated", "revalidated"} =>
        /\ Len(cleaned["products"]) >= 1
        /\ draft["products"] = <<>> =>
               cleaned["products"] = <<[product_name |-> "Unknown Product", quantity |-> "0",
                                        unit_price |-> "0", subtotal |-> "0"]>>
        /\ draft["products"] # <<>> =>
               /\ Len(cleaned["products"]) = Len(draft["products"])
               /\ \A i \in DOMAIN draft["products"] :
                      DOMAIN draft["products"][i] \subseteq DOMAIN cleaned["products"][i]
C4_PlaceholderMade ==
    /\ pc = "validated"
    /\ draft["products"] = <<>>
    /\ Len(cleaned["products"]) = 1
    /\ cleaned["products"][1]["product_name"] = "Unknown Product"

\* what the derivation rule makes of a line: the one field of quantity, unit
\* price and subtotal that is zero or empty, computed from the two positive ones
\* and rounded to two decimals; the line as it is in every other case
numeric_fields == {"quantity", "unit_price", "subtotal"}
RuleOnLine(line) ==
    LET q == ExtractFloat(line["quantity"])
        u == ExtractFloat(line["unit_price"])
        t == ExtractFloat(line["subtotal"])
        zero == {f \in numeric_fields : ~Positive(ExtractFloat(line[f]))}
    IN  IF zero = {"subtotal"} THEN [line EXCEPT !["subtotal"] = FloatStr(RoundedProduct(q, u))]
        ELSE IF zero = {"unit_price"}
            THEN [line EXCEPT !["unit_price"] = FloatStr(RoundedQuotient(t, q))]
        ELSE IF zero = {"quantity"}
            THEN [line EXCEPT !["quantity"] = FloatStr(RoundedQuotient(t, u))]
        ELSE line
FollowsRule(before, after) == \A f \in numeric_fields : after[f] = RuleOnLine(before)[f]
\* the quantity of the line is zero, empty or above 100000 and its name holds a
\* quantity such as "5 kg", which validation then takes for the quantity
QuantityReadFromName(line) ==
    /\ ~Positive(ExtractFloat(line["quantity"]))
           \/ GreaterThan(ExtractFloat(line["quantity"]), 100000)
    /\ Has(line, "product_name")
    /\ Search(QuantityInName, line["product_name"], IgnoreCase).ok

\* C6 as stated: every product line follows the derivation rule: one field is
\* derived exactly when it alone is zero/absent, and with two or more zero/absent
\* none of the three is changed
C6_DerivationAlways ==
    pc = "validated" =>
        \A i \in DOMAIN draft["products"] :
            numeric_fields \subseteq DOMAIN draft["products"][i] =>
                FollowsRule(draft["products"][i], cleaned["products"][i])

\* C6: a product line that carries quantity, unit_price and subtotal and whose
\* quantity is not read again from the product name follows the derivation rule;
\* quantity 10 with unit price 2.5 and no subtotal gives subtotal "25.0"
C6_DerivationUnlessReadFromName ==
    pc = "validated" =>
        \A i \in DOMAIN draft["products"] :
            LET before == draft["products"][i]
                after == cleaned["products"][i]
            IN  numeric_fields \subseteq DOMAIN before /\ ~QuantityReadFromName(before) =>
                    /\ FollowsRule(before, after)
                    /\ before["quantity"] = "10" /\ before["unit_price"] = "2.5"
                           /\ before["subtotal"] = "" => after["subtotal"] = "25.0"
                    /\ before["quantity"] = "10" /\ before["unit_price"] = ""
                           /\ before["subtotal"] = "25" => after["unit_price"] = "2.5"
                    /\ before["quantity"] = "" /\ before["unit_price"] = "2.5"
                           /\ before["subtotal"] = "25" => after["quantity"] = "10.0"
                    /\ before["quantity"] = "10" /\ before["unit_price"] = ""
                           /\ before["subtotal"] = "" =>
                               after["unit_price"] = "" /\ after["subtotal"] = ""
C6_SubtotalDerived ==
    /\ pc = "validated"
    /\ \E i \in DOMAIN draft["products"] :
           /\ draft["products"][i] = [product_name |-> "Widget", quantity |-> "10",
                                      unit_price |-> "2.5", subtotal |-> ""]
           /\ cleaned["products"][i]["subtotal"] = "25.0"

\* C7: after validation an empty customer_name is "Unknown Customer", an empty
\* po_number is "N/A" and an empty currency is "USD"; a value that was extracted
\* is kept
C7_SentinelDefaults ==
    pc = "validated" =>
        /\ draft["customer_name"] = "" => cleaned["customer_name"] = "Unknown Customer"
        /\ draft["po_number"] = "" => cleaned["po_number"] = "N/A"
        /\ draft["currency"] = "" => cleaned["currency"] = "USD"
        /\ \A f \in {"customer_name", "po_number", "currency"} :
               draft[f] # "" => cleaned[f] = CleanStringField(f, draft[f])

\* the sum of two decimals, and of the subtotals of a products sequence
DecimalSum(a, b) ==
    IF a.e >= b.e THEN [m |-> a.m + b.m * Pow10(a.e - b.e), e |-> a.e]
    ELSE [m |-> a.m * Pow10(b.e - a.e) + b.m, e |-> b.e]
RECURSIVE SumOfSubtotals(_)
SumOfSubtotals(products) ==
    IF products = <<>> THEN Zero
    ELSE DecimalSum(ExtractFloat(Head(products)["subtotal"]), SumOfSubtotals(Tail(products)))

\* C8: when the draft has no total_amount, the validated record has one, equal to
\* the sum of the subtotals of its product lines
C8_TotalAmountIsSum ==
    pc = "validated" /\ ~Has(draft, "total_amount") =>
        /\ Has(cleaned, "total_amount")
        /\ Reduce(ExtractFloat(cleaned["total_amount"]))
               = Reduce(SumOfSubtotals(cleaned["products"]))

(***************************************************************************)
(* Properties of the numeric normalizer                                    *)
(***************************************************************************)
\* the input with everything but digits, commas and periods removed
DigitsAndSeparators(v) ==
    LET keep == {i \in 1..Len(v) : Ch(v, i) \in Digit \cup {",", "."}}
        RECURSIVE Pick(_)
        Pick(n) == IF n = 0 THEN ""
                   ELSE Pick(n - 1) \o (IF n \in keep THEN Ch(v, n) ELSE "")
    IN  Pick(Len(v))
CountOf(s, c) == Cardinality({i \in 1..Len(s) : Ch(s, i) = c})

\* C9: when the stripped input holds both a comma and a period, at any positions,
\* the kind whose last occurrence is later becomes the decimal point and every
\* occurrence of the other kind is removed
C9_LaterSeparatorIsDecimal ==
    LET c == DigitsAndSeparators(value) IN
    pc = "normalized" /\ CountOf(c, ",") > 0 /\ CountOf(c, ".") > 0 =>
        normalized_text = IF RFind(c, ",") > RFind(c, ".")
                              THEN Replace(Replace(c, ".", ""), ",", ".")
                              ELSE Replace(c, ",", "")

\* C10: when the stripped input holds commas and no period, a comma within the
\* last 3 characters becomes the decimal point and any other comma is removed as
\* a thousands separator; the output holds no comma and at most one period
C10_CommaOnly ==
    LET c == DigitsAndSeparators(value) IN
    pc = "normalized" /\ CountOf(c, ",") > 0 /\ CountOf(c, ".") = 0 =>
        /\ normalized_text = IF Len(c) - RFind(c, ",") <= 3
                                 THEN Replace(c, ",", ".") ELSE Replace(c, ",", "")
        /\ CountOf(normalized_text, ",") = 0
        /\ CountOf(normalized_text, ".") <= 1

\* C11: the normalizer returns "" for every input whose stripped form is empty
\* or does not read as one decimal number; every non-empty output reads as a
\* decimal number
C11_EmptyOrParseable ==
    pc = "normalized" =>
        /\ DigitsAndSeparators(value) = "" => normalized_text = ""
        /\ normalized_text = "" \/ ParseFloat(normalized_text).ok

(***************************************************************************)
(* Properties of the classifier                                            *)
(***************************************************************************)
profiles == <<"format1", "format2", "format3">>
\* the greatest of the three sums, and the profiles that reach it
TopScore(scores) == CHOOSE n \in {scores[j] : j \in DOMAIN scores} :
                        \A k \in DOMAIN scores : scores[k] <= n
TopProfiles(scores) == {j \in DOMAIN scores : scores[j] = TopScore(scores)}

\* C12: the classifier sums, per profile, the weights of the features found in
\* the text; it answers "generic" when the three sums are 0, the empty text
\* included, and otherwise a profile whose sum no other profile exceeds
C12_MaximalScoreWins ==
    pc = "extracted" =>
        LET scores == FormatScores(text) IN
        /\ TopScore(scores) = 0 => outcome.po_format = "generic"
        /\ TopScore(scores) > 0 =>
               \E j \in TopProfiles(scores) : outcome.po_format = profiles[j]
        /\ text = "" => outcome.po_format = "generic"
        /\ text = "Unit Price: $2.5\nSupplier: X" =>
               scores = <<3, 5, 0>> /\ outcome.po_format = "format2"
\* a text where an earlier profile scores less than the one chosen
C12_LaterProfileWins ==
    /\ pc = "extracted"
    /\ text = "Unit Price: $2.5\nSupplier: X"
    /\ FormatScores(text)[1] > 0
    /\ FormatScores(text)[2] > FormatScores(text)[1]
    /\ outcome.po_format = "format2"

\* C13: when two or more profiles share the greatest non-zero sum, the classifier
\* answers the first of them in the order format1, format2, format3
C13_TieGoesToFirst ==
    pc = "extracted" /\ TopScore(FormatScores(text)) > 0
                     /\ Cardinality(TopProfiles(FormatScores(text))) >= 2 =>
        outcome.po_format =
            profiles[CHOOSE j \in TopProfiles(FormatScores(text)) :
                         \A k \in TopProfiles(FormatScores(text)) : j <= k]
\* format2 and format3 tie at 5 and format2 is answered
C13_TieSeen ==
    /\ pc = "extracted"
    /\ FormatScores(text) = <<0, 5, 5>>
    /\ outcome.po_format = "format2"

\* C17: the classifier answers "generic" when the winning sum is below a fixed
\* fraction of what the profile can reach; a text with one feature of weight 2
\* ("Commodity") and nothing else is generic
C17_LowScoreIsGeneric ==
    pc = "extracted" /\ FormatScores(text) = <<0, 2, 0>> => outcome.po_format = "generic"

(***************************************************************************)
(* Further properties of the pipeline                                      *)
(***************************************************************************)
\* C14: a record returned by extract_po_data carries format_type, the format the
\* classifier chose for the text, and extraction_confidence, a number from 0 to 1
C14_MetadataPresent ==
    pc = "extracted" /\ ~outcome.raised =>
        /\ Has(outcome.result, "format_type")
        /\ outcome.result["format_type"] = IdentifyPoFormat(text)
        /\ outcome.result["format_type"] \in {"format1", "format2", "format3", "generic"}
        /\ Has(outcome.result, "extraction_confidence")
        /\ outcome.result["extraction_confidence"].m >= 0
        /\ outcome.result["extraction_confidence"].m
               <= Pow10(outcome.result["extraction_confidence"].e)

(***************************************************************************)
(* Concurrent calls of extract_po_data.  Each call has its own locals; the  *)
(* module's logger is the one object every call writes to.  A call takes   *)
(* its steps in order, and the steps of different calls interleave.        *)
(***************************************************************************)
MaxCalls == 3
ConcurrentTexts == {"Item: Widget", "Buyer: Acme\nItem: Widget", "Supplier: X\n100 kg"}

\* the last line an extractor logs when it returns
ResultLogLine(po_format) ==
    CASE po_format = "format1" -> 195
      [] po_format = "format2" -> 334
      [] po_format = "format3" -> 423
      [] OTHER -> 561

InitConcurrent ==
    /\ calls \in [1..MaxCalls -> {[text |-> t, pc |-> "called"] : t \in ConcurrentTexts}]
    /\ log_record = Nil /\ field_patterns = <<>>
    /\ db = Nil /\ request = Nil /\ response = Nil
    /\ value = "" /\ normalized_text = ""
    /\ draft = Nil /\ data = Nil /\ cleaned = Nil /\ recleaned = Nil
    /\ text = "" /\ outcome = Nil
    /\ pc = "calls"

\* the format the call dispatches on, read from the log instead of the local
FormatLastLogged(c) == IF log_record.line = 738 THEN log_record.arg ELSE calls[c].po_format
\* po_format, a local of the call
FormatOf(c) == calls[c].po_format

\* po_format = identify_po_format(text)
Identify(c) ==
    /\ calls[c].pc = "called"
    /\ LET po_format == IdentifyPoFormat(calls[c].text) IN
       /\ calls' = [calls EXCEPT ![c] = [text |-> calls[c].text, pc |-> "identified",
                                         po_format |-> po_format]]
       /\ log_record' = [line |-> 738, arg |-> po_format]
    /\ UNCHANGED <<value, normalized_text, draft, data, cleaned, recleaned, text, outcome, pc, field_patterns,
                   db, request, response>>

\* raw_result = extract_..._data(text); an exception ends the call.  draft keeps
\* the record as the extractor returned it
Extracted(c, po_format, raw_result) ==
    IF raw_result.raised
        THEN /\ calls' = [calls EXCEPT ![c] =
                             [text |-> calls[c].text, pc |-> "raised", po_format |-> po_format,
                              outcome |-> Pipeline(po_format, raw_result)]]
             /\ log_record' = [line |-> 303, arg |-> ""]
        ELSE /\ calls' = [calls EXCEPT ![c] =
                             [text |-> calls[c].text, pc |-> "extracted", po_format |-> po_format,
                              draft |-> raw_result.result, raw_result |-> raw_result.result]]
             /\ log_record' = [line |-> ResultLogLine(po_format), arg |-> raw_result.result]
Extract(c) ==
    /\ calls[c].pc = "identified"
    /\ Extracted(c, calls[c].po_format, RawResult(FormatOf(c), calls[c].text))
    /\ UNCHANGED <<value, normalized_text, draft, data, cleaned, recleaned, text, outcome, pc, field_patterns,
                   db, request, response>>

\* cleaned_result = validate_and_clean_result(raw_result), which also rewrites
\* the product lines of raw_result
Validated(c, v) ==
    /\ calls' = [calls EXCEPT ![c] =
                     [text |-> calls[c].text, pc |-> "validated",
                      po_format |-> calls[c].po_format, draft |-> calls[c].draft,
                      raw_result |-> v.arg, cleaned_result |-> v.ret]]
    /\ log_record' = [line |-> 651, arg |-> v.ret]
Validate(c) ==
    /\ calls[c].pc = "extracted"
    /\ Validated(c, ValidateAndCleanResult(calls[c].raw_result))
    /\ UNCHANGED <<value, normalized_text, draft, data, cleaned, recleaned, text, outcome, pc, field_patterns,
                   db, request, response>>

\* the alias loop and the return
Return(c) ==
    /\ calls[c].pc = "validated"
    /\ calls' = [calls EXCEPT ![c] =
                    [text |-> calls[c].text, pc |-> "returned",
                     po_format |-> calls[c].po_format,
                     outcome |-> [raised |-> FALSE, po_format |-> calls[c].po_format,
                                  raw_result |-> calls[c].draft,
                                  result |-> Standardized(calls[c].cleaned_result)]]]
    /\ log_record' = [line |-> 765, arg |-> ""]
    /\ UNCHANGED <<value, normalized_text, draft, data, cleaned, recleaned, text, outcome, pc, field_patterns,
                   db, request, response>>

NextConcurrent ==
    \E c \in 1..MaxCalls : Identify(c) \/ Extract(c) \/ Validate(c) \/ Return(c)
SpecConcurrent == InitConcurrent /\ [][NextConcurrent]_vars

Finished(c) == calls[c].pc \in {"returned", "raised"}
InFlight(c) == calls[c].pc \in {"identified", "extracted", "validated"}

\* C15: what extract_po_data produces depends on its text alone: two calls on
\* the same text produce the same record (or the same exception), whatever other
\* calls ran before, between or during them
C15_SameTextSameOutcome ==
    \A c, d \in 1..MaxCalls :
        Finished(c) /\ Finished(d) /\ calls[c].text = calls[d].text =>
            /\ calls[c].outcome = calls[d].outcome
            /\ calls[c].outcome = ExtractPoData(calls[c].text)
\* two calls on one text have returned the same record while a call on another
\* text, the last to log its format, is under way
C15_InterleavedWithAnother ==
    \E c, d, e \in 1..MaxCalls :
        /\ c # d /\ calls[c].text = calls[d].text
        /\ calls[c].pc = "returned" /\ calls[d].pc = "returned"
        /\ calls[c].outcome = calls[d].outcome
        /\ calls[e].text # calls[c].text /\ InFlight(e)
        /\ calls[e].po_format # calls[c].po_format

\* C16: for the text with "Purchase Order No: PO-2024-001", "Bill To: Acme Corp",
\* the row "Widget A  10  2.50  25.00" and "Total: 25.00", extract_po_data gives
\* customer_name "Acme Corp", po_number "PO-2024-001", one product line with
\* name "Widget A", quantity "10", unit_price "2.50", subtotal "25.00", and
\* total_amount "25.00"
C16_EndToEndScenario ==
    pc = "extracted" /\ text = ScenarioText =>
        /\ ~outcome.raised
        /\ outcome.result["customer_name"] = "Acme Corp"
        /\ outcome.result["po_number"] = "PO-2024-001"
        /\ Len(outcome.result["products"]) = 1
        /\ outcome.result["products"][1]["product_name"] = "Widget A"
        /\ outcome.result["products"][1]["quantity"] = "10"
        /\ outcome.result["products"][1]["unit_price"] = "2.50"
        /\ outcome.result["products"][1]["subtotal"] = "25.00"
        /\ Has(outcome.result, "total_amount")
        /\ outcome.result["total_amount"] = "25.00"

\* C18: when the extractor the classifier selected (format1, format2 or format3)
\* gives an empty po_number and an empty customer_name, extract_po_data uses the
\* draft of the generic extractor on the same text instead
C18_GenericFallback ==
    pc = "extracted" /\ ~outcome.raised
                     /\ outcome.po_format \in {"format1", "format2", "format3"}
                     /\ ~ExtractGenericData(text).raised
                     /\ RawResult(outcome.po_format, text).result["po_number"] = ""
                     /\ RawResult(outcome.po_format, text).result["customer_name"] = "" =>
        outcome.raw_result = ExtractGenericData(text).result

(***************************************************************************)
(* extract_field_by_regex called with a pattern list of the extractors     *)
(***************************************************************************)
ConfiguredLists ==
    {format2_fallback.quantity, format2_header.customer_name,
     generic_product.product_name, generic_product.quantity}
FieldTexts == Texts \cup {"Item: :"}

InitField ==
    /\ text \in FieldTexts
    /\ field_patterns \in ConfiguredLists
    /\ outcome = Nil
    /\ value = "" /\ normalized_text = ""
    /\ draft = Nil /\ data = Nil /\ cleaned = Nil /\ recleaned = Nil
    /\ calls = <<>> /\ log_record = Nil
    /\ db = Nil /\ request = Nil /\ response = Nil
    /\ pc = "field"

CallExtractFieldByRegex ==
    /\ pc = "field"
    /\ outcome' = ExtractFieldByRegex(text, field_patterns, "")
    /\ pc' = "field_extracted"
    /\ UNCHANGED <<value, normalized_text, draft, data, cleaned, recleaned, text, calls,
                   log_record, field_patterns,
                   db, request, response>>

NextField == CallExtractFieldByRegex
SpecField == InitField /\ [][NextField]_vars

\* the text the first group of the pattern captures, stripped, "" when the
\* pattern does not match or captures nothing
Captured(pattern, txt) ==
    LET match == Search(pattern, txt, IgnoreCaseMultiline) IN
    IF match.ok /\ HasGroup(pattern, 1) /\ match.caps[1].set
        THEN Strip(GroupOf(match, txt, 1)) ELSE ""

\* C19: extract_field_by_regex tries the patterns in order and returns the
\* cleaned capture of the first that captures a non-empty value; it returns the
\* default exactly when none does; a value returned from a match is not empty,
\* and no pattern list of the extractors makes the call raise
C19_FirstCaptureWins ==
    pc = "field_extracted" =>
        /\ ~outcome.raised
        /\ IF \E j \in DOMAIN field_patterns : Captured(field_patterns[j], text) # ""
               THEN LET first == CHOOSE j \in DOMAIN field_patterns :
                                     /\ Captured(field_patterns[j], text) # ""
                                     /\ \A k \in 1..(j - 1) : Captured(field_patterns[k], text) = ""
                    IN  /\ outcome.value = Sub(field_edges, "", Captured(field_patterns[first], text), NoFlags)
                        /\ outcome.value # ""
               ELSE outcome.value = ""

C21_ArgumentUnchanged == pc = "validated" => data = draft

(***************************************************************************)
(* src/ocr_service.py: process_ocr_with_enhanced_extraction run on a file   *)
(* and an OCR record.  A table of the database is a function from primary  *)
(* key to row; a JSON text is the object it encodes.                        *)
(***************************************************************************)
\* the text process_pdf returns when no conversion method gives an image
MockText ==
    "MOCK Purchase Order No. 12345\nBuyer's Info: Sample Company\nProduct: Sample Product\nQuantity: 1000kg\nUnit Price: $2.50\nTotal Amount: $2500.00\nPayment Terms: NET 30\nShipping Terms: CIF\nDestination: Tokyo"

\* the uploaded file: what it is and what the OCR engine makes of it; document is
\* the text the OCR engine reads from a file it can read
FileKinds ==
    {"missing", "pdf", "pdf_no_tempdir", "image", "image_no_text", "image_unreadable",
     "unsupported"}
DocumentTexts == {"", "Item: Widget", "Supplier: X\n100 kg"}

\* one conversion method of process_pdf: each of the three reads the name pdf_path,
\* which process_pdf never binds (its parameter is file_path)
ConversionMethod(file) == Raised("NameError")
\* the images after the methods were tried in turn: a method that raises is skipped
Images(file) == IF ConversionMethod(file).raised THEN <<>> ELSE <<file>>
\* the OCR of the pages, one "--- Page n ---" section for each
PageTexts(images, document) ==
    IF images = <<>> THEN "" ELSE "\n--- Page 1 ---\n" \o document
\* process_pdf: the mock text when no method gives an image, the error mock text
\* when anything else in the function raises
ProcessPdf(file, document) ==
    CASE file = "pdf_no_tempdir" -> "ERROR " \o MockText
      [] Images(file) = <<>> -> MockText
      [] OTHER -> Strip(PageTexts(Images(file), document))
\* process_image: OCRError when the image cannot be opened, the empty text when
\* every OCR method fails
ProcessImage(file, document) ==
    CASE file = "image_unreadable" -> Raised("OCRError")
      [] file = "image_no_text" -> Returned(Strip(""))
      [] OTHER -> Returned(Strip(document))
ProcessDocument(file, document) ==
    CASE file = "missing" -> Raised("OCRError")
      [] file \in {"pdf", "pdf_no_tempdir"} -> Returned(ProcessPdf(file, document))
      [] file \in {"image", "image_no_text", "image_unreadable"} -> ProcessImage(file, document)
      [] OTHER -> Raised("OCRError")

\* update_ocr_result without the "error" entry of a failure
UpdateOcrResultNoError(rows, ocr_id, raw_text, processed_data, status, error_message, commit_ok) ==
    IF ocr_id \in DOMAIN rows /\ commit_ok
        THEN [rows |-> [rows EXCEPT ![ocr_id] =
                           [file_path |-> rows[ocr_id].file_path, raw_text |-> raw_text,
                            processed_data |-> processed_data, status |-> status]],
              writes |-> 1]
        ELSE [rows |-> rows, writes |-> 0]
\* update_ocr_result: the row is written when it exists and the commit succeeds;
\* a commit that raises is rolled back and logged
UpdateOcrResult(rows, ocr_id, raw_text, processed_data, status, error_message, commit_ok) ==
    IF ocr_id \in DOMAIN rows /\ commit_ok
        THEN [rows |-> [rows EXCEPT ![ocr_id] =
                           [file_path |-> rows[ocr_id].file_path, raw_text |-> raw_text,
                            processed_data |-> IF error_message # ""
                                                   THEN Put(processed_data, "error", error_message)
                                                   ELSE processed_data,
                            status |-> status]],
              writes |-> 1]
        ELSE [rows |-> rows, writes |-> 0]

EmptyJson == [k \in {} |-> ""]
\* the part of process_ocr_with_enhanced_extraction after the text is read
ExtractAndStore(rows, ocr_id, raw_text, extracted, commit_ok) ==
    IF extracted.raised
        THEN UpdateOcrResult(rows, ocr_id, raw_text, EmptyJson, "failed",
                             "extract: " \o extracted.error, commit_ok)
        ELSE UpdateOcrResult(rows, ocr_id, raw_text,
                             [data |-> extracted.result, processing_time |-> "elapsed",
                              ocr_timestamp |-> "now"],
                             "completed", "", commit_ok)
ReadAndStore(rows, ocr_id, read, commit_ok) ==
    IF read.raised
        THEN UpdateOcrResult(rows, ocr_id, "", EmptyJson, "failed", "ocr: " \o read.error,
                             commit_ok)
        ELSE ExtractAndStore(rows, ocr_id, read.value, ExtractPoData(read.value), commit_ok)
ProcessOcrWithEnhancedExtraction(rows, file, document, ocr_id, commit_ok) ==
    ReadAndStore(rows, ocr_id, ProcessDocument(file, document), commit_ok)

\* the record upload_document means to create
NewOcrRow == [file_path |-> "upload", raw_text |-> "", processed_data |-> EmptyJson,
              status |-> "processing"]
TaskRequests ==
    {[op |-> "process_ocr_with_enhanced_extraction", file |-> f, document |-> d,
      ocr_id |-> i, commit_ok |-> c] :
        f \in FileKinds, d \in DocumentTexts, i \in {1, 2}, c \in BOOLEAN}

InitOcrTask ==
    /\ db = [OCRResults |-> [i \in {1} |-> NewOcrRow]]
    /\ request \in TaskRequests
    /\ response = Nil
    /\ value = "" /\ normalized_text = ""
    /\ draft = Nil /\ data = Nil /\ cleaned = Nil /\ recleaned = Nil
    /\ text = "" /\ outcome = Nil
    /\ calls = <<>> /\ log_record = Nil /\ field_patterns = <<>>
    /\ pc = "task"

Stored(done) ==
    /\ db' = [OCRResults |-> done.rows]
    /\ response' = [raised |-> FALSE, writes |-> done.writes]
CallProcessOcr ==
    /\ pc = "task"
    /\ Stored(ProcessOcrWithEnhancedExtraction(db.OCRResults, request.file, request.document,
                                               request.ocr_id, request.commit_ok))
    /\ pc' = "task_done"
    /\ UNCHANGED <<value, normalized_text, draft, data, cleaned, recleaned, text, outcome,
                   calls, log_record, field_patterns, request>>

NextOcrTask == CallProcessOcr
SpecOcrTask == InitOcrTask /\ [][NextOcrTask]_vars


\* C23 (as stated): every call of process_ocr_with_enhanced_extraction on an
\* existing record returns without raising after exactly one status write, to
\* "completed" with the extracted data or to "failed" with an "error" entry, and
\* the record never keeps its initial status
OcrRow == db.OCRResults[request.ocr_id]
CompletedWithData ==
    /\ OcrRow.status = "completed"
    /\ Has(OcrRow.processed_data, "data")
    /\ OcrRow.processed_data["data"] = ExtractPoData(OcrRow.raw_text).result
FailedWithError ==
    /\ OcrRow.status = "failed"
    /\ Has(OcrRow.processed_data, "error")
OnExistingRecord == pc = "task_done" /\ request.ocr_id \in DOMAIN db.OCRResults
C23_OneStatusWrite ==
    OnExistingRecord =>
        /\ ~response.raised
        /\ response.writes = 1
        /\ CompletedWithData \/ FailedWithError
        /\ OcrRow.status # NewOcrRow.status

\* C23 (amended): the call returns without raising; when the commit succeeds it
\* made exactly one status write, to "completed" with the extracted data or to
\* "failed" with an "error" entry; when the commit raises the write is rolled back
\* and the record is as it was
C23_OneStatusWriteWhenCommitted ==
    OnExistingRecord =>
        /\ ~response.raised
        /\ request.commit_ok =>
               /\ response.writes = 1
               /\ CompletedWithData \/ FailedWithError
               /\ OcrRow.status # NewOcrRow.status
        /\ ~request.commit_ok => response.writes = 0 /\ OcrRow = NewOcrRow
C23_FailedAfterExtractionError ==
    /\ OnExistingRecord
    /\ request.commit_ok
    /\ FailedWithError
    /\ OcrRow.raw_text # ""

\* C24: when the text of the uploaded file cannot be read the record is marked
\* "failed" with an empty raw_text, and never "completed" with data that does not
\* come from the document
Unreadable ==
    request.file \in {"missing", "pdf_no_tempdir", "image_no_text", "image_unreadable",
                      "unsupported"}
FromDocument(raw_text) ==
    raw_text \in {Strip(request.document), Strip("\n--- Page 1 ---\n" \o request.document)}
C24_UnreadableIsFailed ==
    OnExistingRecord /\ request.commit_ok =>
        /\ Unreadable => OcrRow.status = "failed" /\ OcrRow.raw_text = ""
        /\ OcrRow.status = "completed" => FromDocument(OcrRow.raw_text)


(***************************************************************************)
(* src/models.py and src/app.py: the tables and the endpoints.  Base is     *)
(* SQLAlchemy's declarative base: a model class has its columns as          *)
(* attributes and no other, and its constructor takes its columns as        *)
(* keywords and no other.  A row is a function from column names.  The      *)
(* status texts are romanized: "tehai-mae" (before arrangement), "tehai-chu" *)
(* (being arranged), "tehai-zumi" (arranged), "keijo-zumi" (booked).         *)
(***************************************************************************)
Columns ==
    [PurchaseOrder |-> {"po_id", "user_id", "customer_name", "po_number", "currency",
                        "total_amount", "payment_terms", "shipping_terms", "destination",
                        "status", "created_at", "updated_at"},
     OrderItem |-> {"item_id", "po_id", "product_name", "quantity", "unit_price", "subtotal"},
     ShippingSchedule |-> {"id", "po_id", "shipping_company", "transit_point", "cut_off_date",
                           "etd", "eta", "booking_number", "vessel_name", "voyage_number",
                           "container_size"},
     OCRResult |-> {"ocr_id", "po_id", "file_path", "raw_text", "processed_data", "status"},
     Input |-> {"id", "po_id", "shipment_arrangement", "po_acquisition_date", "organization",
                "invoice_number", "payment_status", "booking_number", "memo", "created_at",
                "updated_at"}]
PrimaryKey ==
    [PurchaseOrder |-> "po_id", OrderItem |-> "item_id", ShippingSchedule |-> "id",
     OCRResult |-> "ocr_id", Input |-> "id"]
\* Model.name and instance.name
HasAttribute(model, name) == name \in Columns[model]
\* Model(**kwargs)
Construct(model, kwargs) ==
    IF DOMAIN kwargs \subseteq Columns[model] THEN Returned(kwargs) ELSE Raised("TypeError")

\* db.add and db.commit of a new row: the key is the next of the table
NextId(rows) ==
    IF DOMAIN rows = {} THEN 1 ELSE 1 + CHOOSE k \in DOMAIN rows : \A j \in DOMAIN rows : j <= k
Added(rows, model, row) == Put(rows, NextId(rows), Put(row, PrimaryKey[model], NextId(rows)))
\* db.query(Model).filter(Model.column == v).first(): the key of the row, 0 for None
Matching(rows, column, v) == {k \in DOMAIN rows : rows[k][column] = v}
First(rows, column, v) ==
    IF Matching(rows, column, v) = {} THEN 0
    ELSE CHOOSE k \in Matching(rows, column, v) : \A j \in Matching(rows, column, v) : k <= j
\* db.delete of the row with key k
Deleted(rows, k) == [j \in DOMAIN rows \ {k} |-> rows[j]]

\* the answer of an endpoint: the tables it leaves and the HTTP response; an
\* exception that leaves the endpoint is answered 500 by the framework
Answer(d, status_code, body) ==
    [db |-> d, response |-> [status_code |-> status_code, body |-> body]]
Unhandled(d, error) == Answer(d, 500, [detail |-> "Internal Server Error", error |-> error])

\* upload_document, from the creation of the record on
TaskRegistered(d, ocr_key) ==
    Answer(d, 200, [ocrId |-> ocr_key, status |-> "processing",
                    task |-> [func |-> "process_document",
                              kwargs |-> {"file_path", "ocr_id", "db"}]])
RecordCreated(d, made) ==
    IF made.raised THEN Answer(d, 500, [message |-> made.error])
    ELSE IF ~HasAttribute("OCRResult", "id")
        THEN Answer([d EXCEPT !.OCRResults = Added(@, "OCRResult", made.value)], 500,
                    [message |-> "AttributeError"])
        ELSE TaskRegistered([d EXCEPT !.OCRResults = Added(@, "OCRResult", made.value)],
                            NextId(d.OCRResults))
UploadDocument(d, file_ext, save_ok) ==
    IF file_ext \notin {".pdf", ".png", ".jpg", ".jpeg"}
        THEN Answer(d, 400, [message |-> "unsupported file type"])
    ELSE IF ~save_ok THEN Answer(d, 500, [message |-> "save failed"])
    ELSE RecordCreated(d, Construct("OCRResult",
                                    [user_id |-> 1, file_path |-> "upload",
                                     status |-> "processing", raw_text |-> "",
                                     processed_data |-> EmptyJson]))

GetOcrStatus(d, ocr_id) ==
    IF ~HasAttribute("OCRResult", "id") THEN Unhandled(d, "AttributeError")
    ELSE IF First(d.OCRResults, "id", ocr_id) = 0 THEN Answer(d, 404, [detail |-> "not found"])
    ELSE Answer(d, 200, [ocrId |-> ocr_id,
                         status |-> d.OCRResults[First(d.OCRResults, "id", ocr_id)]["status"]])

Extracted200(d, ocr_id, extracted) ==
    IF extracted.raised THEN Unhandled(d, extracted.error)
    ELSE Answer(d, 200, [ocrId |-> ocr_id, data |-> extracted.result])
ExtractOrderData(d, ocr_id) ==
    IF ~HasAttribute("OCRResult", "id") THEN Unhandled(d, "AttributeError")
    ELSE IF First(d.OCRResults, "id", ocr_id) = 0 THEN Answer(d, 404, [detail |-> "not found"])
    ELSE IF d.OCRResults[First(d.OCRResults, "id", ocr_id)]["status"] # "completed"
        THEN Answer(d, 400, [detail |-> "not completed"])
    ELSE Extracted200(d, ocr_id,
                      ExtractPoData(d.OCRResults[First(d.OCRResults, "id", ocr_id)]["raw_text"]))

\* register_po: the order is committed before its items are made
RECURSIVE ItemsAdded(_, _, _)
ItemsAdded(rows, po_key, products) ==
    IF products = <<>> THEN rows
    ELSE ItemsAdded(Added(rows, "OrderItem",
                          [po_id |-> po_key, product_name |-> Head(products), quantity |-> 1,
                           unit_price |-> 1, subtotal |-> 1]),
                    po_key, Tail(products))
PoCommitted(d, made, products) ==
    IF ~HasAttribute("PurchaseOrder", "id")
        THEN Answer([d EXCEPT !.PurchaseOrders = Added(@, "PurchaseOrder", made.value)], 500,
                    [detail |-> "AttributeError"])
        ELSE Answer([d EXCEPT !.PurchaseOrders = Added(@, "PurchaseOrder", made.value),
                              !.OrderItems = ItemsAdded(@, NextId(d.PurchaseOrders), products)],
                    200, [success |-> TRUE, poId |-> NextId(d.PurchaseOrders)])
PoMade(d, made, products) ==
    IF made.raised THEN Answer(d, 500, [detail |-> made.error])
    ELSE IF Matching(d.PurchaseOrders, "po_number", made.value.po_number) # {}
        THEN Answer(d, 500, [detail |-> "IntegrityError"])
    ELSE PoCommitted(d, made, products)
RegisterPo(d, po_number, products) ==
    PoMade(d, Construct("PurchaseOrder",
                        [user_id |-> 1, customer_name |-> "Customer", po_number |-> po_number,
                         currency |-> "USD", total_amount |-> 1, payment_terms |-> "NET 30",
                         shipping_terms |-> "CIF", destination |-> "Tokyo",
                         status |-> "tehai-chu"]),
           products)

valid_statuses == <<"tehai-mae", "tehai-chu", "tehai-zumi", "keijo-zumi">>
UpdatePoStatus(d, po_id, status) ==
    IF ~HasAttribute("PurchaseOrder", "id") THEN Unhandled(d, "AttributeError")
    ELSE IF First(d.PurchaseOrders, "id", po_id) = 0 THEN Answer(d, 404, [detail |-> "not found"])
    ELSE IF \A i \in DOMAIN valid_statuses : valid_statuses[i] # status
        THEN Answer(d, 400, [detail |-> "invalid status"])
    ELSE Answer([d EXCEPT !.PurchaseOrders[First(d.PurchaseOrders, "id", po_id)]["status"] = status],
                200, [success |-> TRUE, status |-> status])

\* memo_data.get("memo", "")
Get(dict, key, default) == IF Has(dict, key) THEN dict[key] ELSE default
MemoStored(d, po_id, memo, input_key) ==
    IF input_key = 0
        THEN Answer([d EXCEPT !.Input = Added(@, "Input", [po_id |-> po_id, memo |-> memo])],
                    200, [success |-> TRUE, memo |-> memo])
        ELSE Answer([d EXCEPT !.Input[input_key]["memo"] = memo], 200,
                    [success |-> TRUE, memo |-> memo])
UpdatePoMemo(d, po_id, memo_data) ==
    IF ~HasAttribute("PurchaseOrder", "id") THEN Unhandled(d, "AttributeError")
    ELSE IF First(d.PurchaseOrders, "id", po_id) = 0 THEN Answer(d, 404, [detail |-> "not found"])
    ELSE MemoStored(d, po_id, Get(memo_data, "memo", ""), First(d.Input, "po_id", po_id))

\* add_shipping_info, from the shipping row on: booking_number is the row's
\* resulting booking number
Shipped(d, po_key, booking_number) ==
    IF booking_number # "" /\ d.PurchaseOrders[po_key]["status"] = "tehai-chu"
        THEN [d EXCEPT !.PurchaseOrders[po_key]["status"] = "tehai-zumi"]
        ELSE d
ShippingStored(d, po_id, po_key, shipping_data, shipping_key) ==
    IF shipping_key = 0
        THEN Answer(Shipped([d EXCEPT !.ShippingSchedules =
                                Added(@, "ShippingSchedule",
                                      [po_id |-> po_id,
                                       booking_number |-> Get(shipping_data, "booking_number", "")])],
                            po_key, Get(shipping_data, "booking_number", "")),
                    200, [success |-> TRUE, shippingId |-> NextId(d.ShippingSchedules)])
        ELSE Answer(Shipped([d EXCEPT !.ShippingSchedules[shipping_key]["booking_number"] =
                                Get(shipping_data, "booking_number", @)],
                            po_key,
                            Get(shipping_data, "booking_number",
                                d.ShippingSchedules[shipping_key]["booking_number"])),
                    200, [success |-> TRUE, shippingId |-> shipping_key])
\* the handler with the status set whenever the order is found
AddShippingInfoAlwaysArranged(d, po_id, shipping_data) ==
    IF First(d.PurchaseOrders, "po_id", po_id) = 0 THEN Answer(d, 404, [detail |-> "not found"])
    ELSE Answer([d EXCEPT !.PurchaseOrders[First(d.PurchaseOrders, "po_id", po_id)]["status"] =
                              "tehai-zumi"],
                200, [success |-> TRUE])
AddShippingInfo(d, po_id, shipping_data) ==
    IF ~HasAttribute("PurchaseOrder", "id") THEN Unhandled(d, "AttributeError")
    ELSE IF First(d.PurchaseOrders, "id", po_id) = 0 THEN Answer(d, 404, [detail |-> "not found"])
    ELSE ShippingStored(d, po_id, First(d.PurchaseOrders, "id", po_id), shipping_data,
                        First(d.ShippingSchedules, "po_id", po_id))

\* delete_purchase_orders: the body of the try, then the except of any Exception
RECURSIVE EachDeleted(_, _)
EachDeleted(rows, ids) ==
    IF ids = <<>> THEN rows
    ELSE IF First(rows, "id", Head(ids)) = 0 THEN EachDeleted(rows, Tail(ids))
    ELSE EachDeleted(Deleted(rows, First(rows, "id", Head(ids))), Tail(ids))
DeleteBody(d, ids) ==
    IF ids = <<>> THEN Raised("HTTPException 400")
    ELSE IF ~HasAttribute("PurchaseOrder", "id") THEN Raised("AttributeError")
    ELSE Returned([d EXCEPT !.PurchaseOrders = EachDeleted(@, ids)])
DeleteTried(d, body) ==
    IF body.raised THEN Answer(d, 500, [detail |-> body.error])
    ELSE Answer(body.value, 200, [success |-> TRUE])
DeletePurchaseOrders(d, body_data) == DeleteTried(d, DeleteBody(d, Get(body_data, "ids", <<>>)))

\* the requests of the model
MaxPos == 2
PoNumbers == {"PO-1", "PO-2"}
PoIds == 1..(MaxPos + 1)
ProductLists == {<<>>, <<"Widget">>, <<"Widget", "Gadget">>}
Statuses == {valid_statuses[i] : i \in DOMAIN valid_statuses} \cup {"unknown"}
MemoBodies == {EmptyJson, [memo |-> "note"]}
ShippingBodies == {EmptyJson, [booking_number |-> ""], [booking_number |-> "BK-1"]}
DeleteBodies == {EmptyJson, [ids |-> <<>>], [ids |-> <<1>>], [ids |-> <<1, 2>>]}

NoRows == [k \in {} |-> EmptyJson]
InitApi ==
    /\ db = [OCRResults |-> NoRows, PurchaseOrders |-> NoRows, OrderItems |-> NoRows,
             ShippingSchedules |-> NoRows, Input |-> NoRows]
    /\ request = Nil
    /\ response = Nil
    /\ value = "" /\ normalized_text = ""
    /\ draft = Nil /\ data = Nil /\ cleaned = Nil /\ recleaned = Nil
    /\ text = "" /\ outcome = Nil
    /\ calls = <<>> /\ log_record = Nil /\ field_patterns = <<>>
    /\ pc = "api"

Answered(req, answer) ==
    /\ request' = req
    /\ db' = answer.db
    /\ response' = answer.response
    /\ UNCHANGED <<value, normalized_text, draft, data, cleaned, recleaned, text, outcome,
                   pc, calls, log_record, field_patterns>>
CallUploadDocument ==
    \E file_ext \in {".pdf", ".png", ".txt"}, save_ok \in BOOLEAN :
        /\ pc = "api"
        /\ Answered([op |-> "upload_document", file_ext |-> file_ext, save_ok |-> save_ok],
                    UploadDocument(db, file_ext, save_ok))
CallGetOcrStatus ==
    \E ocr_id \in {1, 2} :
        /\ pc = "api"
        /\ Answered([op |-> "get_ocr_status", ocr_id |-> ocr_id], GetOcrStatus(db, ocr_id))
CallExtractOrderData ==
    \E ocr_id \in {1, 2} :
        /\ pc = "api"
        /\ Answered([op |-> "extract_order_data", ocr_id |-> ocr_id], ExtractOrderData(db, ocr_id))
CallRegisterPo ==
    \E po_number \in PoNumbers, products \in ProductLists :
        /\ pc = "api"
        /\ Cardinality(DOMAIN db.PurchaseOrders) < MaxPos
        /\ Answered([op |-> "register_po", po_number |-> po_number, products |-> products],
                    RegisterPo(db, po_number, products))
CallUpdatePoStatus ==
    \E po_id \in PoIds, status \in Statuses :
        /\ pc = "api"
        /\ Answered([op |-> "update_po_status", po_id |-> po_id, status |-> status],
                    UpdatePoStatus(db, po_id, status))
CallUpdatePoMemo ==
    \E po_id \in PoIds, memo_data \in MemoBodies :
        /\ pc = "api"
        /\ Answered([op |-> "update_po_memo", po_id |-> po_id, body |-> memo_data],
                    UpdatePoMemo(db, po_id, memo_data))
CallAddShippingInfo ==
    \E po_id \in PoIds, shipping_data \in ShippingBodies :
        /\ pc = "api"
        /\ Answered([op |-> "add_shipping_info", po_id |-> po_id, body |-> shipping_data],
                    AddShippingInfo(db, po_id, shipping_data))
CallDeletePurchaseOrders ==
    \E body_data \in DeleteBodies :
        /\ pc = "api"
        /\ Answered([op |-> "delete_purchase_orders", body |-> body_data],
                    DeletePurchaseOrders(db, body_data))

NextApi ==
    \/ CallUploadDocument
    \/ CallGetOcrStatus
    \/ CallExtractOrderData
    \/ CallRegisterPo
    \/ CallUpdatePoStatus
    \/ CallUpdatePoMemo
    \/ CallAddShippingInfo
    \/ CallDeletePurchaseOrders
SpecApi == InitApi /\ [][NextApi]_vars


\* C25: extract_order_data answers the extracted data only for a record whose
\* status is "completed", 400 for a record in another status and 404 for an
\* unknown id, and leaves the tables as they were
OcrKey(ocr_id) == First(db.OCRResults, "ocr_id", ocr_id)
C25_ExtractOnlyCompleted ==
    [][request'.op = "extract_order_data" =>
           /\ db' = db
           /\ OcrKey(request'.ocr_id) = 0 => response'.status_code = 404
           /\ OcrKey(request'.ocr_id) # 0 =>
                  IF db.OCRResults[OcrKey(request'.ocr_id)]["status"] = "completed"
                      THEN response'.status_code = 200
                      ELSE response'.status_code = 400]_vars

\* C26: every stored purchase order has one of the four statuses, and an
\* update_po_status request for a stored order with any other status is answered
\* 400 and leaves the stored status as it was
IsValidStatus(status) == \E i \in DOMAIN valid_statuses : valid_statuses[i] = status
C26_StatusesValid ==
    [][/\ \A k \in DOMAIN db'.PurchaseOrders : IsValidStatus(db'.PurchaseOrders[k]["status"])
       /\ /\ request'.op = "update_po_status"
          /\ request'.po_id \in DOMAIN db.PurchaseOrders
          /\ ~IsValidStatus(request'.status)
          => /\ response'.status_code = 400
             /\ db'.PurchaseOrders = db.PurchaseOrders]_vars

\* C27: add_shipping_info changes the status of a purchase order only from
\* "tehai-chu" to "tehai-zumi" and only when the booking number of the shipping
\* row is not empty; otherwise the status is as it was
ResultingBookingNumber(po_id, shipping_data, rows) ==
    IF First(rows, "po_id", po_id) = 0 THEN Get(shipping_data, "booking_number", "")
    ELSE Get(shipping_data, "booking_number", rows[First(rows, "po_id", po_id)]["booking_number"])
C28_NoIdsIs400 ==
    [][request'.op = "delete_purchase_orders" /\ Get(request'.body, "ids", <<>>) = <<>> =>
           /\ response'.status_code = 400
           /\ db'.PurchaseOrders = db.PurchaseOrders]_vars

\* C30: register_po is all-or-nothing: answered 500 it stored neither the order
\* nor an item; answered success it stored the order and one item for each product
C30_AllOrNothing ==
    [][request'.op = "register_po" =>
           /\ response'.status_code = 500 =>
                  /\ db'.PurchaseOrders = db.PurchaseOrders
                  /\ db'.OrderItems = db.OrderItems
           /\ response'.status_code = 200 =>
                  /\ Cardinality(DOMAIN db'.PurchaseOrders)
                         = Cardinality(DOMAIN db.PurchaseOrders) + 1
                  /\ Cardinality(DOMAIN db'.OrderItems)
                         = Cardinality(DOMAIN db.OrderItems) + Len(request'.products)
           /\ response'.status_code \in {200, 500}]_vars

=============================================================================
